---- MODULE Spec2Model ----
(***************************************************************************)
(* Model of python_script_runner_tools: the tool descriptor base classes   *)
(* PythonScriptRunnerTool (tools/base.py) and CodeSandboxTool              *)
(* (tools/codesandbox_base.py), their argument validation, and the tool    *)
(* sets CLITools / CodeSandboxSDKTools that register descriptors with the  *)
(* kubiya_sdk tool registry when the package is imported.                  *)
(***************************************************************************)
EXTENDS Naturals, Sequences, FiniteSets

(***************************************************************************)
(* Bounds of the model.                                                    *)
(***************************************************************************)
\* Longest declared argument list of a descriptor drawn in Init.
MaxArgs == 2
\* Number of concurrent callers sharing one descriptor.
NumCallers == 2
\* Tool sets constructed again by the application after the package loaded.
MaxConstructions == 2
\* The most invocations of payloads in one execution environment.
MaxInvocations == 2

(***************************************************************************)
(* Python values.  A value carries its type; truthiness is Python's        *)
(* bool(): the empty string and 0 are falsy.                               *)
(***************************************************************************)
Str(s) == [t |-> "str", s |-> s, n |-> 0]
Int(n) == [t |-> "int", s |-> "", n |-> n]

\* The values a caller may put in an argument map: empty and non-empty
\* strings, and values that are not strings (falsy 0, truthy 1).
Values == {Str(""), Str("x"), Int(0), Int(1)}

\* bool(v), as tested by `args[arg]` and `not args[arg.name]`.
Truthy(v) == IF v.t = "str" THEN v.s # "" ELSE v.n # 0

\* What a caller passes as `args`: a dict, or None (no map at all).
PyDict(m) == [t |-> "dict", m |-> m]
PyNone == [t |-> "NoneType", m |-> <<>>]

\* What a call gives back: a bool, a str, a list, None, or a raised exception.
RetBool(b) == [kind |-> "bool", b |-> b, s |-> "", l |-> <<>>]
RetStr(s) == [kind |-> "str", b |-> FALSE, s |-> s, l |-> <<>>]
RetList(l) == [kind |-> "list", b |-> FALSE, s |-> "", l |-> l]
RetNone == [kind |-> "None", b |-> FALSE, s |-> "", l |-> <<>>]
Raise(exc) == [kind |-> "raise", b |-> FALSE, s |-> exc, l |-> <<>>]
NotCalled == [kind |-> "not_called", b |-> FALSE, s |-> "", l |-> <<>>]

(***************************************************************************)
(* kubiya_sdk.tools.Arg: name, required flag (the description has no       *)
(* effect on any operation and is left out).                               *)
(***************************************************************************)
Arg(name, required) == [name |-> name, required |-> required]

\* Argument names come in families; a descriptor declares names of one
\* family and the caller's map is keyed by names of the same family, so a
\* map can hold declared and undeclared keys.
NameFamilies == {{"script_content", "sandbox_name"}, {"a", "b"}}

ArgListsOver(F) ==
    UNION {[1..n -> {Arg(nm, rq) : nm \in F, rq \in BOOLEAN}] : n \in 0..MaxArgs}

MapsOver(F) == UNION {[D -> Values] : D \in SUBSET F}

\* Payload texts handed to the constructors.
Contents == {"echo one", "echo two"}

(***************************************************************************)
(* Constructors.  `args or []` keeps a non-empty list and turns an absent  *)
(* or empty one into [].                                                   *)
(***************************************************************************)
\* The class diagrams the two modules define for their class.  Each text is
\* abbreviated to the diagram itself: in the source it stands between the
\* two fence lines of a Markdown code block, which are left out here.  The
\* source's text is a line end, a line of three backquotes and the word
\* mermaid, the text below, and a closing line of three backquotes.
DEFAULT_MERMAID ==
    "classDiagram\n    class Tool {\n        <<interface>>\n        +get_args()\n        +get_content()\n        +get_image()\n    }\n    class PythonScriptRunnerTool {\n        -content: str\n        -args: List[Arg]\n        -image: str\n        +__init__(name, description, content, args, image)\n        +get_args()\n        +get_content()\n        +get_image()\n        +get_file_specs()\n        +validate_args(args)\n        +get_error_message(args)\n        +get_environment()\n    }\n    Tool <|-- PythonScriptRunnerTool\n"

DEFAULT_CODESANDBOX_MERMAID ==
    "classDiagram\n    class Tool {\n        <<interface>>\n        +get_args()\n        +get_content()\n        +get_image()\n    }\n    class CodeSandboxTool {\n        -content: str\n        -args: List[Arg]\n        -image: str\n        +__init__(name, description, content, args, image)\n        +get_args()\n        +get_content()\n        +get_image()\n        +get_file_specs()\n        +validate_args(args)\n        +get_error_message(args)\n        +get_environment()\n    }\n    Tool <|-- CodeSandboxTool\n"

\* The default of each constructor's image parameter.
PythonScriptRunnerTool_image == "python:3.11-slim"
CodeSandboxTool_image == "node:18-alpine"

\* Images a caller may pass instead.
Images == {"alpine:3"}

PythonScriptRunnerTool_init(name, description, content, args, image) ==
    [cls |-> "PythonScriptRunnerTool",
     name |-> name,
     description |-> description,
     content |-> content,
     args |-> IF args = <<>> THEN <<>> ELSE args,
     image |-> image,
     icon_url |-> "https://cdn.worldvectorlogo.com/logos/python-5.svg",
     type |-> "docker",
     mermaid |-> DEFAULT_MERMAID,
     secrets |-> {"CODE_SANDBOX_API"}]

\* The shell prelude CodeSandboxTool puts in front of every payload
\* (SDK install and CSB_API_KEY check), abbreviated to its commands.
CodeSandboxPrelude ==
    "set -e; mkdir -p /tmp/codesandbox_project; npm install @codesandbox/sdk || exit 1; [ -z $CSB_API_KEY ] && exit 1; "

\* What the constructor's template holds after the given content: the end
\* of its last line and the indentation of the closing quotes.
CodeSandboxTail == "\n        "

CodeSandboxTool_init(name, description, content, args, image) ==
    [cls |-> "CodeSandboxTool",
     name |-> name,
     description |-> description,
     content |-> CodeSandboxPrelude \o content \o CodeSandboxTail,
     args |-> IF args = <<>> THEN <<>> ELSE args,
     image |-> image,
     icon_url |-> "https://codesandbox.io/favicon.ico",
     type |-> "docker",
     mermaid |-> DEFAULT_CODESANDBOX_MERMAID,
     secrets |-> {"CSB_API_KEY"}]

(***************************************************************************)
(* Shared Python semantics used by both classes.                           *)
(***************************************************************************)
\* [arg.name for arg in self.args if arg.required]
RECURSIVE required_names(_, _)
required_names(args, i) ==
    IF i > Len(args) THEN <<>>
    ELSE IF args[i].required
         THEN <<args[i].name>> \o required_names(args, i + 1)
         ELSE required_names(args, i + 1)

\* Variant of all_present that tests key presence only (drops `and args[arg]`).
RECURSIVE all_present_keys_only(_, _, _)
all_present_keys_only(args, required_args, i) ==
    IF i > Len(required_args) THEN RetBool(TRUE)
    ELSE IF args.t # "dict" THEN Raise("TypeError")
    ELSE IF required_args[i] \in DOMAIN args.m
         THEN all_present_keys_only(args, required_args, i + 1)
         ELSE RetBool(FALSE)

\* Variant of all_present that also rejects a map holding a key that is not
\* a required name.
RECURSIVE all_present_strict(_, _, _)
all_present_strict(args, required_args, i) ==
    IF i > Len(required_args) THEN RetBool(TRUE)
    ELSE IF args.t # "dict" THEN Raise("TypeError")
    ELSE IF /\ required_args[i] \in DOMAIN args.m
            /\ Truthy(args.m[required_args[i]])
            /\ DOMAIN args.m \subseteq {required_args[j] : j \in 1..Len(required_args)}
         THEN all_present_strict(args, required_args, i + 1)
         ELSE RetBool(FALSE)

\* all(arg in args and args[arg] for arg in required_args): the generator
\* is consumed in order and stops at the first falsy element; `arg in args`
\* on None raises TypeError.
RECURSIVE all_present(_, _, _)
all_present(args, required_args, i) ==
    IF i > Len(required_args) THEN RetBool(TRUE)
    ELSE IF args.t # "dict" THEN Raise("TypeError")
    ELSE IF required_args[i] \in DOMAIN args.m /\ Truthy(args.m[required_args[i]])
         THEN all_present(args, required_args, i + 1)
         ELSE RetBool(FALSE)

\* Variant of missing_loop that reports only absent keys (drops
\* `or not args[arg.name]`).
RECURSIVE missing_loop_absent_only(_, _, _, _)
missing_loop_absent_only(self_args, args, i, missing_args) ==
    IF i > Len(self_args) THEN [raised |-> FALSE, names |-> missing_args]
    ELSE IF ~self_args[i].required
         THEN missing_loop_absent_only(self_args, args, i + 1, missing_args)
    ELSE IF args.t # "dict" THEN [raised |-> TRUE, names |-> missing_args]
    ELSE IF self_args[i].name \notin DOMAIN args.m
         THEN missing_loop_absent_only(self_args, args, i + 1,
                                       Append(missing_args, self_args[i].name))
         ELSE missing_loop_absent_only(self_args, args, i + 1, missing_args)

\* The loop of get_error_message: appends, in declaration order, the name
\* of each required argument that is absent or falsy.  `not in` on None
\* raises TypeError at the first required argument.
RECURSIVE missing_loop(_, _, _, _)
missing_loop(self_args, args, i, missing_args) ==
    IF i > Len(self_args) THEN [raised |-> FALSE, names |-> missing_args]
    ELSE IF ~self_args[i].required
         THEN missing_loop(self_args, args, i + 1, missing_args)
    ELSE IF args.t # "dict" THEN [raised |-> TRUE, names |-> missing_args]
    ELSE IF self_args[i].name \notin DOMAIN args.m
            \/ ~Truthy(args.m[self_args[i].name])
         THEN missing_loop(self_args, args, i + 1,
                           Append(missing_args, self_args[i].name))
         ELSE missing_loop(self_args, args, i + 1, missing_args)

\* Variant of join that forgets the separator.
RECURSIVE join_no_sep(_, _)
join_no_sep(sep, names) ==
    IF names = <<>> THEN "" ELSE names[1] \o join_no_sep(sep, Tail(names))

\* ', '.join(names)
RECURSIVE join(_, _)
join(sep, names) ==
    IF names = <<>> THEN ""
    ELSE IF Len(names) = 1 THEN names[1]
    ELSE names[1] \o sep \o join(sep, Tail(names))

\* f"Missing required arguments: {', '.join(missing_args)}" if the list is
\* non-empty, else None.
error_text(missing_args) ==
    IF missing_args # <<>>
    THEN RetStr("Missing required arguments: " \o join(", ", missing_args))
    ELSE RetNone

(***************************************************************************)
(* The methods.  Each gives the state after the call: the descriptor, the  *)
(* caller's argument object, and the returned value.                       *)
(***************************************************************************)
\* Variant of validate_args that deletes the falsy entries from the caller's
\* map while checking it.
PythonScriptRunnerTool_validate_args_pruning(self, args) ==
    LET kept == IF args.t = "dict"
                THEN PyDict([k \in {x \in DOMAIN args.m : Truthy(args.m[x])} |-> args.m[k]])
                ELSE args
    IN [self |-> self, args |-> kept,
        ret |-> all_present(args, required_names(self.args, 1), 1)]

PythonScriptRunnerTool_validate_args(self, args) ==
    [self |-> self, args |-> args,
     ret |-> all_present(args, required_names(self.args, 1), 1)]

PythonScriptRunnerTool_get_error_message(self, args) ==
    LET r == missing_loop(self.args, args, 1, <<>>)
    IN [self |-> self, args |-> args,
        ret |-> IF r.raised THEN Raise("TypeError") ELSE error_text(r.names)]

\* Variant of CodeSandboxTool.validate_args: a required name only has to be
\* a key of the map.
CodeSandboxTool_validate_args_keys_only(self, args) ==
    [self |-> self, args |-> args,
     ret |-> all_present_keys_only(args, required_names(self.args, 1), 1)]

CodeSandboxTool_validate_args(self, args) ==
    [self |-> self, args |-> args,
     ret |-> all_present(args, required_names(self.args, 1), 1)]

CodeSandboxTool_get_error_message(self, args) ==
    LET r == missing_loop(self.args, args, 1, <<>>)
    IN [self |-> self, args |-> args,
        ret |-> IF r.raised THEN Raise("TypeError") ELSE error_text(r.names)]

\* Method resolution on the descriptor's class.
validate_args(self, args) ==
    IF self.cls = "PythonScriptRunnerTool"
    THEN PythonScriptRunnerTool_validate_args(self, args)
    ELSE CodeSandboxTool_validate_args(self, args)

get_error_message(self, args) ==
    IF self.cls = "PythonScriptRunnerTool"
    THEN PythonScriptRunnerTool_get_error_message(self, args)
    ELSE CodeSandboxTool_get_error_message(self, args)

\* Accessors: plain projections, the same in both classes.
get_args(self) == [self |-> self, ret |-> RetList(self.args)]
get_content(self) == [self |-> self, ret |-> RetStr(self.content)]
get_image(self) == [self |-> self, ret |-> RetStr(self.image)]

(***************************************************************************)
(* The descriptors of the package, as their factory methods build them.    *)
(* Payload texts are abbreviated to a one-line summary of the script.      *)
(***************************************************************************)
CLITools_run_python_script ==
    PythonScriptRunnerTool_init(
        "python_script_runner",
        "Execute Python scripts with automatic installation of common libraries (pandas, openpyxl, lxml, boto3). Provide the script path or script content to run.",
        "check script_path/script_content; pip install pandas openpyxl lxml boto3; python script",
        <<Arg("script_path", FALSE), Arg("script_content", FALSE)>>,
        PythonScriptRunnerTool_image)

CodeSandboxSDKTools_create_codesandbox_sdk ==
    CodeSandboxTool_init(
        "create_codesandbox_sdk",
        "Create a CodeSandbox using the new CodeSandbox SDK and save the Python script file. Requires CSB_API_KEY secret and a CodeSandbox Pro plan.",
        "write create_sandbox.js; node create_sandbox.js",
        <<Arg("script_content", TRUE), Arg("sandbox_name", FALSE)>>,
        CodeSandboxTool_image)

CodeSandboxSDKTools_execute_codesandbox_sdk ==
    CodeSandboxTool_init(
        "execute_codesandbox_sdk",
        "Execute the existing Python script (main.py) in a CodeSandbox using the SDK. Requires an existing sandbox ID.",
        "write execute_sandbox.js; node execute_sandbox.js",
        <<Arg("sandbox_id", TRUE), Arg("script_content", FALSE)>>,
        CodeSandboxTool_image)

\* The descriptors of codesandbox_runner.py, which the package does not
\* import.
CodeSandboxTools_create_codesandbox ==
    PythonScriptRunnerTool_init(
        "create_codesandbox",
        "Create a CodeSandbox cloud environment with Python script content. Uses the CODE_SANDBOX_API secret for authentication.",
        "check script_content, CODE_SANDBOX_API; pip install requests; POST sandbox; save /tmp/sandbox_<name>.json",
        <<Arg("script_content", TRUE), Arg("sandbox_name", FALSE), Arg("template_type", FALSE)>>,
        PythonScriptRunnerTool_image)

CodeSandboxTools_execute_codesandbox ==
    PythonScriptRunnerTool_init(
        "execute_codesandbox",
        "Execute Python script in CodeSandbox environment. Can work with existing sandbox or create a new one if none exists. Uses CODE_SANDBOX_API secret for creating new sandboxes.",
        "check script_content; pip install requests; find or create sandbox; print instructions",
        <<Arg("script_content", TRUE), Arg("sandbox_id", FALSE), Arg("sandbox_name", FALSE)>>,
        PythonScriptRunnerTool_image)

\* Variant of CodeSandboxSDKTools_tools: the execute descriptor is listed
\* before the create descriptor.
CodeSandboxSDKTools_tools_reversed ==
    <<CodeSandboxSDKTools_execute_codesandbox_sdk,
      CodeSandboxSDKTools_create_codesandbox_sdk>>

\* tools = [...] in each tool set's __init__.
CLITools_tools == <<CLITools_run_python_script>>
CodeSandboxSDKTools_tools ==
    <<CodeSandboxSDKTools_create_codesandbox_sdk,
      CodeSandboxSDKTools_execute_codesandbox_sdk>>

CodeSandboxTools_tools ==
    <<CodeSandboxTools_create_codesandbox, CodeSandboxTools_execute_codesandbox>>

\* The tool sets tools/__init__.py imports, and all tool sets of the source.
LoadedToolSets == {"CLITools", "CodeSandboxSDKTools"}
ToolSets == LoadedToolSets \cup {"CodeSandboxTools"}
ToolsOf(ts) ==
    IF ts = "CLITools" THEN CLITools_tools
    ELSE IF ts = "CodeSandboxSDKTools" THEN CodeSandboxSDKTools_tools
    ELSE CodeSandboxTools_tools

\* The family named in the outer handler's message of each tool set.
FamilyOf(ts) ==
    IF ts = "CLITools" THEN "Python Script Runner"
    ELSE IF ts = "CodeSandboxSDKTools" THEN "CodeSandbox SDK"
    ELSE "CodeSandbox Runner"

\* The namespace both tool sets register under.
Namespace == "python_script_runner"

PackageTools ==
    UNION {{ToolsOf(ts)[i] : i \in 1..Len(ToolsOf(ts))} : ts \in LoadedToolSets}

(***************************************************************************)
(* Spec: one descriptor and one caller.  The caller holds an argument      *)
(* object, calls the methods in any order any number of times, and may     *)
(* add a key to its own map between calls.                                 *)
(***************************************************************************)
VARIABLES
    tool,         \* the descriptor object
    constructed,  \* the descriptor as the constructor returned it
    amap,         \* the caller's argument object
    supplied,     \* the argument object as the caller last wrote it
    results,      \* first result of validate_args / get_error_message on amap
    ret,          \* the last call: [op, val]
    before,       \* the map's state before the caller's last AddKey
    callers,      \* concurrent callers: [pc, op, args, ret] each
    locals,       \* the local variables of the calls in progress, by frame
    loader,       \* the tool set constructor in progress during package load
    registry,     \* kubiya_sdk tool_registry: registered [ns, name], in order
    stdout,       \* lines printed to stdout
    stderr,       \* lines printed to stderr
    registry_raised,  \* the exception the registry raised last
    propagated,   \* the exception that reached the constructor's caller
    inv,          \* the invocation in progress: [n, args], args as the runtime got them
    proc,         \* the process running the invoked descriptor's payload
    fs,           \* the files of the execution environment: path -> content
    remote,       \* the sandbox provider's state
    trace         \* what the payload has done so far, in order: [op, arg, ok]

varsTool == <<tool, constructed>>
varsCall == <<amap, supplied, results, ret, before>>
varsConc == <<callers, locals>>
varsReg == <<loader, registry, stdout, stderr, registry_raised, propagated>>
varsPay == <<inv, proc, fs, remote, trace>>
vars == <<varsTool, varsCall, varsConc, varsReg, varsPay>>

NoResults == [validate_args |-> NotCalled, get_error_message |-> NotCalled]
NoCall == [op |-> "none", val |-> NotCalled]
NoBefore == [set |-> FALSE, key |-> "", va |-> NotCalled]

\* Values of the variables a specification does not use.
NoLocals == [i |-> 0, required_args |-> <<>>, missing_args |-> <<>>]
NoError == [type |-> "", detail |-> ""]
IdleLoader == [pc |-> "idle", ts |-> "", tools |-> <<>>, i |-> 0, origin |-> "",
               attempted |-> <<>>, rejected |-> 0, n |-> 0, rest_imported |-> FALSE]

CallParked ==
    /\ amap = PyNone /\ supplied = PyNone /\ results = NoResults
    /\ ret = NoCall /\ before = NoBefore
ConcParked ==
    /\ callers = <<>> /\ locals = <<>>
RegParked ==
    /\ loader = IdleLoader /\ registry = <<>> /\ stdout = <<>> /\ stderr = <<>>
    /\ registry_raised = NoError /\ propagated = NoError

NoInvocation == [n |-> 0, args |-> <<>>]
NoProcess == [pc |-> "none"]
NoFiles == <<>>
NoProvider == [sandboxes |-> <<>>]
PayParked ==
    /\ inv = NoInvocation /\ proc = NoProcess /\ fs = NoFiles
    /\ remote = NoProvider /\ trace = <<>>

Construct(cls, content, argl, image) ==
    IF cls = "PythonScriptRunnerTool"
    THEN PythonScriptRunnerTool_init("tool", "a tool", content, argl, image)
    ELSE CodeSandboxTool_init("tool", "a tool", content, argl, image)

\* The image of a construction: the class's default, or one the caller gave.
ImagesOf(cls) ==
    Images \cup {IF cls = "PythonScriptRunnerTool" THEN PythonScriptRunnerTool_image
                 ELSE CodeSandboxTool_image}

Init ==
    \E F \in NameFamilies :
      \E cls \in {"PythonScriptRunnerTool", "CodeSandboxTool"},
         content \in Contents, argl \in ArgListsOver(F) :
       \E image \in ImagesOf(cls) :
        /\ tool = Construct(cls, content, argl, image)
        /\ constructed = tool
        /\ amap \in {PyNone} \cup {PyDict(m) : m \in MapsOver(F)}
        /\ supplied = amap
        /\ results = NoResults
        /\ ret = NoCall
        /\ before = NoBefore
        /\ ConcParked
        /\ RegParked
        /\ PayParked

First(op, val) == IF results[op] = NotCalled
                  THEN [results EXCEPT ![op] = val] ELSE results

Call_validate_args ==
    LET r == validate_args(tool, amap) IN
    /\ tool' = r.self
    /\ amap' = r.args
    /\ ret' = [op |-> "validate_args", val |-> r.ret]
    /\ results' = First("validate_args", r.ret)
    /\ UNCHANGED <<constructed, supplied, before, varsConc, varsReg, varsPay>>

Call_get_error_message ==
    LET r == get_error_message(tool, amap) IN
    /\ tool' = r.self
    /\ amap' = r.args
    /\ ret' = [op |-> "get_error_message", val |-> r.ret]
    /\ results' = First("get_error_message", r.ret)
    /\ UNCHANGED <<constructed, supplied, before, varsConc, varsReg, varsPay>>

Call_get_args ==
    LET r == get_args(tool) IN
    /\ tool' = r.self
    /\ ret' = [op |-> "get_args", val |-> r.ret]
    /\ UNCHANGED <<constructed, amap, supplied, results, before, varsConc, varsReg, varsPay>>

Call_get_content ==
    LET r == get_content(tool) IN
    /\ tool' = r.self
    /\ ret' = [op |-> "get_content", val |-> r.ret]
    /\ UNCHANGED <<constructed, amap, supplied, results, before, varsConc, varsReg, varsPay>>

Call_get_image ==
    LET r == get_image(tool) IN
    /\ tool' = r.self
    /\ ret' = [op |-> "get_image", val |-> r.ret]
    /\ UNCHANGED <<constructed, amap, supplied, results, before, varsConc, varsReg, varsPay>>

\* The names the caller may use as keys: those of the family in use.
KeysInUse ==
    UNION {F \in NameFamilies :
             \/ \E i \in 1..Len(tool.args) : tool.args[i].name \in F
             \/ (amap.t = "dict" /\ DOMAIN amap.m # {} /\ DOMAIN amap.m \subseteq F)
             \/ (tool.args = <<>> /\ amap.t = "dict" /\ DOMAIN amap.m = {})}

Extend(m, k, v) == [x \in DOMAIN m \cup {k} |-> IF x = k THEN v ELSE m[x]]

\* The caller adds a key it has not yet set, after having validated.
AddKey ==
    \E k \in KeysInUse, v \in Values :
      /\ amap.t = "dict"
      /\ k \notin DOMAIN amap.m
      /\ results.validate_args # NotCalled
      /\ before' = [set |-> TRUE, key |-> k, va |-> results.validate_args]
      /\ amap' = PyDict(Extend(amap.m, k, v))
      /\ supplied' = amap'
      /\ results' = NoResults
      /\ ret' = NoCall
      /\ UNCHANGED <<tool, constructed, varsConc, varsReg, varsPay>>

Next ==
    \/ Call_validate_args
    \/ Call_get_error_message
    \/ Call_get_args
    \/ Call_get_content
    \/ Call_get_image
    \/ AddKey

Spec == Init /\ [][Next]_vars

(***************************************************************************)
(* SpecConc: several callers call validate_args and get_error_message on   *)
(* one descriptor of the package at the same time, each with its own map.  *)
(* A call advances one loop iteration at a time and the callers' steps     *)
(* interleave freely; nothing is locked.                                   *)
(***************************************************************************)
Callers == 1..NumCallers

\* Variant of frame: one set of locals shared by every call (as if
\* missing_args / required_args were kept on the descriptor).
frame_shared(c) == 1

\* required_args and missing_args are local variables: each call has its
\* own frame, gone when the call returns.
frame(c) == c

DeclaredNames(self) == {self.args[i].name : i \in 1..Len(self.args)}

\* Caller maps: keys among the descriptor's declared names, values "" or "x".
ConcMaps(self) ==
    UNION {[D -> {Str(""), Str("x")}] : D \in SUBSET DeclaredNames(self)}

InitConc ==
    /\ tool \in PackageTools
    /\ constructed = tool
    /\ callers \in [Callers -> {[pc |-> "idle", op |-> "none", args |-> PyDict(m),
                                 ret |-> NotCalled] : m \in ConcMaps(tool)}]
    /\ locals = [f \in Callers |-> NoLocals]
    /\ CallParked
    /\ RegParked
    /\ PayParked

\* validate_args, line 74: the list comprehension builds required_args.
Start_validate_args(c) ==
    /\ callers[c].pc = "idle"
    /\ callers' = [callers EXCEPT ![c].pc = "all", ![c].op = "validate_args",
                                  ![c].ret = NotCalled]
    /\ locals' = [locals EXCEPT ![frame(c)] =
                     [i |-> 1, required_args |-> required_names(tool.args, 1),
                      missing_args |-> <<>>]]
    /\ UNCHANGED <<varsTool, varsCall, varsReg, varsPay>>

\* validate_args, line 75: all() consumes one element of the generator.
Step_all(c) ==
    LET L == locals[frame(c)]
        a == callers[c].args
    IN
    /\ callers[c].pc = "all"
    /\ IF L.i > Len(L.required_args)
       THEN /\ callers' = [callers EXCEPT ![c].pc = "done", ![c].ret = RetBool(TRUE)]
            /\ locals' = [locals EXCEPT ![frame(c)] = NoLocals]
       ELSE IF a.t # "dict"
       THEN /\ callers' = [callers EXCEPT ![c].pc = "done", ![c].ret = Raise("TypeError")]
            /\ locals' = [locals EXCEPT ![frame(c)] = NoLocals]
       ELSE IF L.required_args[L.i] \in DOMAIN a.m /\ Truthy(a.m[L.required_args[L.i]])
       THEN /\ locals' = [locals EXCEPT ![frame(c)].i = L.i + 1]
            /\ UNCHANGED callers
       ELSE /\ callers' = [callers EXCEPT ![c].pc = "done", ![c].ret = RetBool(FALSE)]
            /\ locals' = [locals EXCEPT ![frame(c)] = NoLocals]
    /\ UNCHANGED <<varsTool, varsCall, varsReg, varsPay>>

\* get_error_message, line 79: missing_args = [].
Start_get_error_message(c) ==
    /\ callers[c].pc = "idle"
    /\ callers' = [callers EXCEPT ![c].pc = "loop", ![c].op = "get_error_message",
                                  ![c].ret = NotCalled]
    /\ locals' = [locals EXCEPT ![frame(c)] =
                     [i |-> 1, required_args |-> <<>>, missing_args |-> <<>>]]
    /\ UNCHANGED <<varsTool, varsCall, varsReg, varsPay>>

\* get_error_message, lines 80-82: one iteration of `for arg in self.args`.
Step_loop(c) ==
    LET L == locals[frame(c)]
        a == callers[c].args
    IN
    /\ callers[c].pc = "loop"
    /\ IF L.i > Len(tool.args)
       THEN /\ callers' = [callers EXCEPT ![c].pc = "return"]
            /\ UNCHANGED locals
       ELSE IF ~tool.args[L.i].required
       THEN /\ locals' = [locals EXCEPT ![frame(c)].i = L.i + 1]
            /\ UNCHANGED callers
       ELSE IF a.t # "dict"
       THEN /\ callers' = [callers EXCEPT ![c].pc = "done", ![c].ret = Raise("TypeError")]
            /\ locals' = [locals EXCEPT ![frame(c)] = NoLocals]
       ELSE IF tool.args[L.i].name \notin DOMAIN a.m \/ ~Truthy(a.m[tool.args[L.i].name])
       THEN /\ locals' = [locals EXCEPT ![frame(c)].i = L.i + 1,
                                        ![frame(c)].missing_args =
                                            Append(L.missing_args, tool.args[L.i].name)]
            /\ UNCHANGED callers
       ELSE /\ locals' = [locals EXCEPT ![frame(c)].i = L.i + 1]
            /\ UNCHANGED callers
    /\ UNCHANGED <<varsTool, varsCall, varsReg, varsPay>>

\* get_error_message, lines 84-86: the message, or None.
Step_return(c) ==
    /\ callers[c].pc = "return"
    /\ callers' = [callers EXCEPT ![c].pc = "done",
                                  ![c].ret = error_text(locals[frame(c)].missing_args)]
    /\ locals' = [locals EXCEPT ![frame(c)] = NoLocals]
    /\ UNCHANGED <<varsTool, varsCall, varsReg, varsPay>>

\* The caller takes the result and is free to call again.
Finish(c) ==
    /\ callers[c].pc = "done"
    /\ callers' = [callers EXCEPT ![c].pc = "idle", ![c].op = "none",
                                  ![c].ret = NotCalled]
    /\ UNCHANGED <<locals, varsTool, varsCall, varsReg, varsPay>>

NextConc ==
    \E c \in Callers :
        \/ Start_validate_args(c)
        \/ Step_all(c)
        \/ Start_get_error_message(c)
        \/ Step_loop(c)
        \/ Step_return(c)
        \/ Finish(c)

SpecConc == InitConc /\ [][NextConc]_vars

(***************************************************************************)
(* SpecReg: loading the package.  tools/__init__.py imports script_runner, *)
(* whose last statement constructs CLITools, then codesandbox_sdk_runner,  *)
(* whose last statement constructs CodeSandboxSDKTools.  Each constructor  *)
(* registers its descriptors, in order, with the kubiya_sdk tool registry. *)
(* After the load the application may import codesandbox_runner, whose     *)
(* last statement constructs CodeSandboxTools, and may construct a tool    *)
(* set again.                                                              *)
(***************************************************************************)
RegistryError(kind, name) == [type |-> kind, detail |-> kind \o ": " \o name]

RegisteredNames(reg, ns) == {reg[j].name : j \in {x \in 1..Len(reg) : reg[x].ns = ns}}

\* tool_registry.register(ns, tool), as the registry interface states it:
\* it stores the descriptor, or fails with DuplicateName (the name is taken
\* in that namespace) or RegistryUnavailable.
register_outcomes(reg, ns, t) ==
    IF t.name \in RegisteredNames(reg, ns)
    THEN {"DuplicateName", "RegistryUnavailable"}
    ELSE {"ok", "RegistryUnavailable"}

\* Variant of register_failed: the failure is printed and the loop goes on
\* to the next descriptor (best effort).
register_failed_continue(ld, err, e) ==
    [ld |-> [ld EXCEPT !.i = ld.i + 1],
     err |-> Append(err, "Failed to register " \o ld.tools[ld.i].name \o ": " \o e.detail),
     raised |-> NoError]

\* Variant of register_failed: the handlers raise a new exception instead
\* of re-raising the registry's.
register_failed_wrapped(ld, err, e) ==
    [ld |-> [ld EXCEPT !.pc = "raised"],
     err |-> err \o <<"Failed to register " \o ld.tools[ld.i].name \o ": " \o e.detail,
                      "Failed to register " \o FamilyOf(ld.ts) \o " tools: " \o e.detail>>,
     raised |-> [type |-> "RuntimeError", detail |-> "registration failed"]]

\* Variant of register_failed: the handlers print their lines and swallow
\* the exception, so the constructor returns normally.
register_failed_swallowed(ld, err, e) ==
    [ld |-> [ld EXCEPT !.pc = IF ld.origin = "import" /\ ld.ts = "CLITools"
                                 THEN "import_codesandbox_sdk_runner" ELSE "loaded"],
     err |-> err \o <<"Failed to register " \o ld.tools[ld.i].name \o ": " \o e.detail,
                      "Failed to register " \o FamilyOf(ld.ts) \o " tools: " \o e.detail>>,
     raised |-> NoError]

\* The two handlers of __init__ when register raises e for tools[i]: the
\* inner one prints the descriptor's name and str(e) to stderr and
\* re-raises; the outer one prints the tool set's message and re-raises, so
\* e leaves the constructor and the loop is abandoned.  (Printed lines are
\* modelled without their leading status mark.)
register_failed(ld, err, e) ==
    [ld |-> [ld EXCEPT !.pc = "raised"],
     err |-> err \o <<"Failed to register " \o ld.tools[ld.i].name \o ": " \o e.detail,
                      "Failed to register " \o FamilyOf(ld.ts) \o " tools: " \o e.detail>>,
     raised |-> e]

\* The loop body when register returns: print the success line, next tool.
register_succeeded(ld, out) ==
    [ld |-> [ld EXCEPT !.i = ld.i + 1],
     out |-> Append(out, "Registered: " \o ld.tools[ld.i].name)]

\* A constructor run starts: tools = [...] is built and the loop begins.
\* rest_imported: codesandbox_runner has been imported by the application.
StartedLoader(ts, origin, n, rest_imported) ==
    [pc |-> "registering", ts |-> ts, tools |-> ToolsOf(ts), i |-> 1,
     origin |-> origin, attempted |-> <<>>, rejected |-> 0, n |-> n,
     rest_imported |-> rest_imported]

\* The package's tool names, in load order.
LoadOrder == <<"python_script_runner", "create_codesandbox_sdk", "execute_codesandbox_sdk">>

\* A registry that already holds the names in `taken`.
Preregistered(taken) ==
    LET sel == SelectSeq(LoadOrder, LAMBDA nm : nm \in taken)
    IN [j \in 1..Len(sel) |-> [ns |-> Namespace, name |-> sel[j]]]

InitReg ==
    /\ loader = [IdleLoader EXCEPT !.pc = "import_script_runner"]
    \* Names of the package may already be registered in the namespace.
    /\ \E taken \in SUBSET {t.name : t \in PackageTools} :
          registry = Preregistered(taken)
    /\ stdout = <<>>
    /\ stderr = <<>>
    /\ registry_raised = NoError
    /\ propagated = NoError
    /\ tool = CLITools_run_python_script
    /\ constructed = tool
    /\ CallParked
    /\ ConcParked
    /\ PayParked

\* script_runner.py line 163: CLITools().
Import_script_runner ==
    /\ loader.pc = "import_script_runner"
    /\ loader' = StartedLoader("CLITools", "import", 0, FALSE)
    /\ UNCHANGED <<registry, stdout, stderr, registry_raised, propagated,
                   varsTool, varsCall, varsConc, varsPay>>

\* codesandbox_sdk_runner.py line 409: CodeSandboxSDKTools().
Import_codesandbox_sdk_runner ==
    /\ loader.pc = "import_codesandbox_sdk_runner"
    /\ loader' = StartedLoader("CodeSandboxSDKTools", "import", 0, FALSE)
    /\ UNCHANGED <<registry, stdout, stderr, registry_raised, propagated,
                   varsTool, varsCall, varsConc, varsPay>>

\* One iteration of `for tool in tools`: register is called for tools[i]
\* and either returns or raises.
Register ==
    /\ loader.pc = "registering"
    /\ loader.i <= Len(loader.tools)
    /\ \E o \in register_outcomes(registry, Namespace, loader.tools[loader.i]) :
        LET t == loader.tools[loader.i]
            called == [loader EXCEPT !.attempted = Append(@, t.name)]
        IN
        IF o = "ok"
        THEN LET r == register_succeeded(called, stdout) IN
             /\ registry' = Append(registry, [ns |-> Namespace, name |-> t.name])
             /\ loader' = r.ld
             /\ stdout' = r.out
             /\ UNCHANGED <<stderr, registry_raised, propagated>>
        ELSE LET e == RegistryError(o, t.name)
                 r == register_failed([called EXCEPT !.rejected = loader.i], stderr, e)
             IN
             /\ registry_raised' = e
             /\ loader' = r.ld
             /\ stderr' = r.err
             /\ propagated' = r.raised
             /\ UNCHANGED <<registry, stdout>>
    /\ UNCHANGED <<varsTool, varsCall, varsConc, varsPay>>

\* The loop is over and the constructor returns; during the load the next
\* import follows.
Constructed ==
    /\ loader.pc = "registering"
    /\ loader.i > Len(loader.tools)
    /\ loader' = [loader EXCEPT
                     !.pc = IF loader.origin = "import" /\ loader.ts = "CLITools"
                            THEN "import_codesandbox_sdk_runner" ELSE "loaded",
                     !.rest_imported = @ \/ loader.origin = "import_later"]
    /\ UNCHANGED <<registry, stdout, stderr, registry_raised, propagated,
                   varsTool, varsCall, varsConc, varsPay>>

\* codesandbox_runner.py line 441: after the load the application imports
\* the module the package leaves out, whose last statement constructs
\* CodeSandboxTools.  A module is run once; an import that raised can be
\* tried again.
Import_codesandbox_runner ==
    /\ loader.pc = "loaded"
    /\ ~loader.rest_imported
    /\ loader.n < MaxConstructions
    /\ loader' = StartedLoader("CodeSandboxTools", "import_later", loader.n + 1, FALSE)
    /\ registry_raised' = NoError
    /\ propagated' = NoError
    /\ UNCHANGED <<registry, stdout, stderr, varsTool, varsCall, varsConc, varsPay>>

\* The application constructs a tool set again in the same process, one
\* whose module it has imported.
ConstructAgain ==
    /\ loader.pc = "loaded"
    /\ loader.n < MaxConstructions
    /\ \E ts \in ToolSets :
          /\ ts = "CodeSandboxTools" => loader.rest_imported
          /\ loader' = StartedLoader(ts, "call", loader.n + 1, loader.rest_imported)
    /\ registry_raised' = NoError
    /\ propagated' = NoError
    /\ UNCHANGED <<registry, stdout, stderr, varsTool, varsCall, varsConc, varsPay>>

\* The application catches the exception of a construction or import it
\* asked for; the constructor's frame is gone.
CallerCatches ==
    /\ loader.pc = "raised"
    /\ loader.origin \in {"call", "import_later"}
    /\ loader' = [IdleLoader EXCEPT !.pc = "loaded", !.n = loader.n,
                                    !.rest_imported = loader.rest_imported]
    /\ UNCHANGED <<registry, stdout, stderr, registry_raised, propagated,
                   varsTool, varsCall, varsConc, varsPay>>

NextReg ==
    \/ Import_script_runner
    \/ Import_codesandbox_sdk_runner
    \/ Register
    \/ Constructed
    \/ Import_codesandbox_runner
    \/ ConstructAgain
    \/ CallerCatches

SpecReg == InitReg /\ [][NextReg]_vars

(***************************************************************************)
(* Properties of the descriptor contract, checked under Spec.              *)
(***************************************************************************)
\* A value that counts as non-empty: not the empty string, not 0.
NonEmpty(v) == v # Str("") /\ v # Int(0)

\* Every declared argument with required=true is in m with a non-empty value.
RequiredSatisfied(self, m) ==
    \A i \in 1..Len(self.args) :
        self.args[i].required =>
            (self.args[i].name \in DOMAIN m /\ NonEmpty(m[self.args[i].name]))

\* The declared required arguments that m leaves out or empty, in order.
MissingNames(self, m) ==
    LET miss == SelectSeq(self.args,
                    LAMBDA a : a.required /\ (a.name \notin DOMAIN m \/ ~NonEmpty(m[a.name])))
    IN [i \in 1..Len(miss) |-> miss[i].name]

ScenarioA == <<Arg("script_content", TRUE), Arg("sandbox_name", FALSE)>>
ScenarioC == <<Arg("a", TRUE), Arg("b", TRUE)>>

\* C1: on a dict, validate_args returns True exactly when every declared
\* required argument is present with a non-empty value (an empty string
\* counts as missing), whatever the payload text of the descriptor.
C1_ValidateIffRequiredPresent ==
    (ret.op = "validate_args" /\ amap.t = "dict") =>
        /\ ret.val = RetBool(RequiredSatisfied(tool, amap.m))
        /\ \A c \in Contents :
              validate_args([tool EXCEPT !.content = c], amap).ret = ret.val

\* Scenario B: script_content required and supplied as "" is rejected.
C1_Witness ==
    /\ ret.op = "validate_args"
    /\ tool.args = ScenarioA
    /\ amap.t = "dict" /\ DOMAIN amap.m = {"script_content"}
    /\ amap.m["script_content"] = Str("")
    /\ ret.val = RetBool(FALSE)

\* C2: get_error_message returns None exactly when validate_args returns
\* True, and a message exactly when validate_args returns False.
C2_NoMessageIffValid ==
    (results.validate_args # NotCalled /\ results.get_error_message # NotCalled) =>
        /\ (results.get_error_message = RetNone) <=> (results.validate_args = RetBool(TRUE))
        /\ (results.get_error_message.kind = "str") <=> (results.validate_args = RetBool(FALSE))

\* Both were called on a map with a required argument supplied empty.
C2_Witness ==
    /\ results.validate_args = RetBool(FALSE)
    /\ results.get_error_message.kind = "str"
    /\ amap.t = "dict"
    /\ \E k \in DOMAIN amap.m : ~NonEmpty(amap.m[k])

NoDuplicates(names) ==
    \A i, j \in 1..Len(names) : names[i] = names[j] => i = j

\* names is a subsequence of the declared names: matched left to right.
InDeclaredOrder(names, args) ==
    \E f \in [1..Len(names) -> 1..Len(args)] :
        /\ \A j \in 1..Len(names) : args[f[j]].name = names[j]
        /\ \A j, k \in 1..Len(names) : j < k => f[j] < f[k]

\* C3: the names listed by get_error_message are in declared order and no
\* name is listed more than once, for every argument list the constructor
\* accepts.
C3_OrderedNoDuplicates ==
    (ret.op = "get_error_message" /\ ret.val.kind = "str") =>
        LET names == missing_loop(tool.args, amap, 1, <<>>).names IN
        /\ ret.val.s = "Missing required arguments: " \o join(", ", names)
        /\ InDeclaredOrder(names, tool.args)
        /\ NoDuplicates(names)

\* C4: validate_args never raises: it returns a bool for every input, and
\* False when no map is given.
C4_NeverRaises ==
    ret.op = "validate_args" =>
        /\ ret.val.kind = "bool"
        /\ (amap.t # "dict" => ret.val = RetBool(FALSE))

\* C5: the name of an argument declared required=false never appears in the
\* output of get_error_message, and the absence of an optional argument
\* never makes validate_args False.
C5_OptionalNeverListed ==
    /\ (ret.op = "get_error_message" /\ amap.t = "dict") =>
          \A i \in 1..Len(tool.args) :
              ~tool.args[i].required =>
                  \A j \in 1..Len(MissingNames(tool, amap.m)) :
                      MissingNames(tool, amap.m)[j] # tool.args[i].name
    /\ (ret.op = "get_error_message" /\ ret.val.kind = "str") =>
          ret.val.s = "Missing required arguments: " \o join(", ", MissingNames(tool, amap.m))
    /\ (ret.op = "validate_args" /\ ret.val = RetBool(FALSE) /\ amap.t = "dict") =>
          \A i \in 1..Len(tool.args) :
              (~tool.args[i].required /\ tool.args[i].name \notin DOMAIN amap.m) =>
                  \A v \in Values :
                      validate_args(tool, PyDict(Extend(amap.m, tool.args[i].name, v))).ret
                          = RetBool(FALSE)

DeclaredRequired(self, k) ==
    \E i \in 1..Len(self.args) : self.args[i].required /\ self.args[i].name = k

\* C6: adding a key to a map never turns a True validate_args result into
\* False, and a False result becomes True only when the added key names a
\* declared required argument.
C6_Monotonic ==
    (before.set /\ results.validate_args # NotCalled) =>
        /\ before.va = RetBool(TRUE) => results.validate_args = RetBool(TRUE)
        /\ (before.va = RetBool(FALSE) /\ results.validate_args = RetBool(TRUE))
              => DeclaredRequired(tool, before.key)

\* A valid map got one more key and was validated again.
C6_Witness ==
    /\ before.set
    /\ before.va = RetBool(TRUE)
    /\ results.validate_args = RetBool(TRUE)
    /\ \E i \in 1..Len(tool.args) : tool.args[i].required

\* The names written one after the other with ", " between neighbours.
RECURSIVE CommaJoined(_)
CommaJoined(names) ==
    IF Len(names) = 0 THEN ""
    ELSE IF Len(names) = 1 THEN names[1]
    ELSE CommaJoined(SubSeq(names, 1, Len(names) - 1)) \o ", " \o names[Len(names)]

\* C7: with a required argument missing, get_error_message returns exactly
\* "Missing required arguments: " followed by the missing names joined by
\* ", "; the spec's scenarios A and C give the stated texts.
C7_ExactText ==
    (ret.op = "get_error_message" /\ amap.t = "dict") =>
        /\ MissingNames(tool, amap.m) # <<>> => ret.val.kind = "str"
        /\ MissingNames(tool, amap.m) # <<>> =>
              ret.val = RetStr("Missing required arguments: "
                                   \o CommaJoined(MissingNames(tool, amap.m)))
        /\ (tool.args = ScenarioA /\ DOMAIN amap.m = {}) =>
              ret.val = RetStr("Missing required arguments: script_content")
        /\ (tool.args = ScenarioC /\ DOMAIN amap.m = {"a"} /\ amap.m["a"] = Str("x")) =>
              ret.val = RetStr("Missing required arguments: b")

\* Two names are missing and reported.
C7_Witness ==
    /\ ret.op = "get_error_message"
    /\ tool.args = ScenarioC
    /\ amap.t = "dict" /\ DOMAIN amap.m = {}
    /\ ret.val = RetStr("Missing required arguments: a, b")

\* C8: no call changes the descriptor or the caller's map, and a repeated
\* call on the same map returns what the first call returned.
C8_NoSideEffects ==
    /\ tool = constructed
    /\ amap = supplied
    /\ ret.op \in {"validate_args", "get_error_message"} => ret.val = results[ret.op]

\* Both operations and an accessor have been called on a map with a falsy entry.
C8_Witness ==
    /\ results.validate_args # NotCalled
    /\ results.get_error_message # NotCalled
    /\ ret.op = "get_image"
    /\ amap.t = "dict"
    /\ \E k \in DOMAIN amap.m : ~Truthy(amap.m[k])

\* C9: whatever the interleaving, a call that completes has returned what
\* the same call returns when run alone on the caller's own map, and the
\* descriptor is as constructed.
C9_ConcurrentCallsIndependent ==
    /\ tool = constructed
    /\ \A c \in DOMAIN callers :
          callers[c].pc = "done" =>
              callers[c].ret =
                  IF callers[c].op = "validate_args"
                  THEN validate_args(tool, callers[c].args).ret
                  ELSE get_error_message(tool, callers[c].args).ret

\* One caller has its message while another, with a different map, is in
\* the middle of its own loop.
C9_Witness ==
    /\ DOMAIN callers # {}
    /\ \E c, d \in DOMAIN callers :
          /\ c # d
          /\ callers[c].pc = "done" /\ callers[c].ret.kind = "str"
          /\ callers[d].pc \in {"all", "loop"} /\ locals[frame(d)].i = 2
          /\ validate_args(tool, callers[d].args).ret = RetBool(TRUE)

(***************************************************************************)
(* Properties of registration, checked under SpecReg.                      *)
(***************************************************************************)
\* C10: when the registry rejects the k-th descriptor of a batch, stderr
\* names that descriptor with the error detail, the registry's exception
\* is what the constructor's caller receives, and register has been called
\* for the first k descriptors only.
C10_FailFast ==
    loader.rejected # 0 =>
        LET k == loader.rejected IN
        /\ loader.pc = "raised"
        /\ \E j \in 1..Len(stderr) :
              stderr[j] = "Failed to register " \o loader.tools[k].name
                              \o ": " \o registry_raised.detail
        /\ propagated = registry_raised
        /\ propagated # NoError
        /\ loader.attempted = [j \in 1..k |-> loader.tools[j].name]

\* The first of two descriptors was rejected: the second was never tried.
C10_Witness ==
    /\ loader.pc = "raised"
    /\ loader.rejected = 1
    /\ Len(loader.tools) = 2
    /\ loader.attempted = <<"create_codesandbox_sdk">>
    /\ propagated.type = "DuplicateName"

\* The registry holds no (namespace, name) pair twice.
NoDuplicateEntries(reg) ==
    \A i, j \in 1..Len(reg) : reg[i] = reg[j] => i = j

\* C11: a register call for a name already taken in the namespace fails,
\* with DuplicateName whenever the registry is reachable, and the registry
\* keeps only the first entry of that name; a tool set constructed again in
\* the same process fails at its first descriptor, and no step of such a
\* construction changes the registry.
C11_DuplicateRejected ==
    /\ [](/\ NoDuplicateEntries(registry)
          /\ (loader.rejected # 0 /\ registry_raised.type # "RegistryUnavailable") =>
                /\ registry_raised.type = "DuplicateName"
                /\ loader.tools[loader.rejected].name \in RegisteredNames(registry, Namespace)
          /\ loader.origin = "call" =>
                /\ loader.pc \in {"registering", "raised"}
                /\ loader.i = 1
                /\ loader.pc = "raised" => loader.rejected = 1 /\ propagated = registry_raised)
    /\ [][loader'.origin = "call" => registry' = registry]_vars

\* CodeSandboxSDKTools was constructed again after a complete load: its
\* first descriptor was rejected as a duplicate and the registry still holds
\* the three descriptors of the load.
C11_Witness ==
    /\ loader.origin = "call"
    /\ loader.ts = "CodeSandboxSDKTools"
    /\ loader.pc = "raised"
    /\ propagated.type = "DuplicateName"
    /\ registry = Preregistered({"python_script_runner", "create_codesandbox_sdk",
                                 "execute_codesandbox_sdk"})

\* C14: every entry the load adds is under the namespace
\* "python_script_runner"; once the load has completed with every
\* registration accepted, the registry holds python_script_runner,
\* create_codesandbox_sdk and execute_codesandbox_sdk, in that order and
\* nothing else; create_codesandbox and execute_codesandbox are not
\* registered by the load (the registry holds neither as long as the
\* application has imported or constructed nothing itself).
C14_LoadRegistersThree ==
    /\ \A j \in 1..Len(registry) : registry[j].ns = "python_script_runner"
    /\ loader.n = 0 =>
          RegisteredNames(registry, "python_script_runner")
             \cap {"create_codesandbox", "execute_codesandbox"} = {}
    /\ (loader.pc = "loaded" /\ loader.origin = "import") =>
          /\ registry = <<[ns |-> "python_script_runner", name |-> "python_script_runner"],
                          [ns |-> "python_script_runner", name |-> "create_codesandbox_sdk"],
                          [ns |-> "python_script_runner", name |-> "execute_codesandbox_sdk"]>>
          /\ NoDuplicateEntries(registry)

\* The load has just completed: three success lines were printed and the
\* second tool set's constructor has returned.
C14_Witness ==
    /\ loader.pc = "loaded"
    /\ loader.origin = "import"
    /\ loader.ts = "CodeSandboxSDKTools"
    /\ Len(registry) = 3
    /\ stdout = <<"Registered: python_script_runner",
                  "Registered: create_codesandbox_sdk",
                  "Registered: execute_codesandbox_sdk">>

\* The entries of the first n descriptors of the load, in load order.
FirstOfLoad(n) == [j \in 1..n |-> [ns |-> Namespace, name |-> LoadOrder[j]]]

\* The position in the load order of the descriptor the loader rejected.
RejectedAt == (IF loader.ts = "CLITools" THEN 0 ELSE Len(CLITools_tools)) + loader.rejected

\* C20: when the k-th registration of the load fails, the load stops there:
\* the registry holds what it held before the load followed by the first
\* k-1 descriptors, and k-1 success lines were printed; no step ever removes
\* a registry entry; CodeSandboxSDKTools is constructed by the load only
\* after CLITools registered its descriptor, and nothing is constructed
\* after the load has raised.
C20_NoRollback ==
    /\ []((loader.origin = "import" /\ loader.rejected # 0) =>
             /\ loader.pc = "raised"
             /\ \E taken \in SUBSET {LoadOrder[j] : j \in 1..Len(LoadOrder)} :
                   registry = Preregistered(taken) \o FirstOfLoad(RejectedAt - 1)
             /\ stdout = [j \in 1..(RejectedAt - 1) |-> "Registered: " \o LoadOrder[j]])
    /\ []((loader.origin = "import" /\ loader.ts = "CodeSandboxSDKTools") =>
             /\ Len(stdout) >= 1
             /\ stdout[1] = "Registered: python_script_runner"
             /\ stderr = <<>> \/ loader.rejected # 0)
    /\ [][/\ Len(registry') >= Len(registry)
          /\ SubSeq(registry', 1, Len(registry)) = registry]_vars
    /\ [][(loader.origin = "import" /\ loader.pc = "raised") => loader' = loader]_vars

\* The third registration of the load failed: the registry holds the first
\* two descriptors.
C20_Witness ==
    /\ loader.origin = "import"
    /\ loader.pc = "raised"
    /\ RejectedAt = 3
    /\ registry = FirstOfLoad(2)

(***************************************************************************)
(* The two descriptor classes compared, checked under Spec.                *)
(***************************************************************************)
\* The attributes a descriptor exposes (the class tag is not one of them).
DescriptorFields ==
    {"name", "description", "content", "args", "image", "icon_url", "type",
     "mermaid", "secrets"}

\* The attributes in which two descriptors differ.
DiffFields(p, c) == {f \in DescriptorFields : p[f] # c[f]}

\* Both classes answer the two questions alike on the caller's map, and
\* the answers the caller has received are those answers.
SameAnswers(p, c) ==
    /\ validate_args(p, amap).ret = validate_args(c, amap).ret
    /\ get_error_message(p, amap).ret = get_error_message(c, amap).ret
    /\ results.validate_args # NotCalled =>
          results.validate_args = validate_args(p, amap).ret
    /\ results.get_error_message # NotCalled =>
          results.get_error_message = get_error_message(c, amap).ret

\* C13 as stated: a PythonScriptRunnerTool and a CodeSandboxTool built from
\* the same name, description, payload and declared list give the same
\* validate_args and get_error_message results on every map, and differ
\* only in payload text and image.
C13_DifferOnlyInPayloadAndImage ==
    \A content \in Contents :
        LET p == PythonScriptRunnerTool_init(tool.name, tool.description, content, tool.args,
                                             PythonScriptRunnerTool_image)
            c == CodeSandboxTool_init(tool.name, tool.description, content, tool.args,
                                      CodeSandboxTool_image)
        IN /\ SameAnswers(p, c)
           /\ DiffFields(p, c) \subseteq {"content", "image"}

\* C13 amended: the two give the same validate_args and get_error_message
\* results on every map, and differ exactly in payload text, image, secret
\* names, icon and diagram.
C13_SameValidation ==
    \A content \in Contents :
        LET p == PythonScriptRunnerTool_init(tool.name, tool.description, content, tool.args,
                                             PythonScriptRunnerTool_image)
            c == CodeSandboxTool_init(tool.name, tool.description, content, tool.args,
                                      CodeSandboxTool_image)
        IN /\ SameAnswers(p, c)
           /\ DiffFields(p, c) = {"content", "image", "secrets", "icon_url", "mermaid"}

\* A CodeSandboxTool has refused a map that holds its required name with an
\* empty value, and has named it.
C13_Witness ==
    /\ tool.cls = "CodeSandboxTool"
    /\ amap.t = "dict"
    /\ \E i \in 1..Len(tool.args) :
          /\ tool.args[i].required
          /\ tool.args[i].name \in DOMAIN amap.m
    /\ results.validate_args = RetBool(FALSE)
    /\ results.get_error_message.kind = "str"

(***************************************************************************)
(* Payloads.  The runtime puts the invocation's arguments in the shell's   *)
(* environment under their names and runs the descriptor's content; a      *)
(* name the map does not hold expands to the empty string.  Nothing in the *)
(* package calls validate_args or get_error_message before the content is  *)
(* run.  One action is one command of the script; a command that can fail  *)
(* either succeeds or fails.                                               *)
(***************************************************************************)
\* "$name" in a payload.
shell_var(args, name) == IF name \in DOMAIN args.m THEN args.m[name].s ELSE ""

\* The argument maps of an invocation: each name absent, or one of its values.
InvocationMaps(choices) ==
    UNION {{PyDict(m) : m \in {f \in [D -> UNION {choices[k] : k \in D}] :
                                  \A k \in D : f[k] \in choices[k]}}
           : D \in SUBSET DOMAIN choices}

Remove(m, k) == [x \in DOMAIN m \ {k} |-> m[x]]

\* exit <code>, or the exit `set -e` forces when a command fails.
Exited(p, code) == [p EXCEPT !.pc = "exited", !.code = code]

\* Exit statuses of a failing command, and of the Python interpreter.
FailStatuses == {1, 2}
PythonStatuses == {0, 1}

Did(op, arg, ok) == [op |-> op, arg |-> arg, ok |-> ok]

(***************************************************************************)
(* SpecLocal: the payload of python_script_runner (script_runner.py).      *)
(***************************************************************************)
\* Variant of neither_given: the payload does not check its arguments.
neither_given_unchecked(script_path, script_content) == FALSE

\* [ -z "$script_path" ] && [ -z "$script_content" ]
neither_given(script_path, script_content) == script_path = "" /\ script_content = ""

\* Variant of Packages: boto3 is installed first.
Packages_boto3_first == <<"boto3", "pandas", "openpyxl", "lxml">>

\* The packages the payload installs, in the order of its pip commands.
Packages == <<"pandas", "openpyxl", "lxml", "boto3">>

TEMP_SCRIPT == "/tmp/temp_script.py"

\* script_path may name the file the payload itself writes.
LocalChoices ==
    [script_path |-> {Str(""), Str("/app/run.py"), Str(TEMP_SCRIPT)},
     script_content |-> {Str(""), Str("print(1)")}]

\* Variant of script_source: script_path is looked at first.
script_source_path_first(script_path, script_content) ==
    IF script_path # "" THEN "path"
    ELSE IF script_content # "" THEN "content"
    ELSE "none"

\* if [ -n "$script_content" ]; then ... elif [ -n "$script_path" ]; then ... fi
script_source(script_path, script_content) ==
    IF script_content # "" THEN "content"
    ELSE IF script_path # "" THEN "path"
    ELSE "none"

\* The shell at the first command of the payload.
LocalStart(args) ==
    [pc |-> "check_args",
     script_path |-> shell_var(args, "script_path"),
     script_content |-> shell_var(args, "script_content"),
     i |-> 1, code |-> 0]

InitLocal ==
    /\ tool = CLITools_run_python_script
    /\ constructed = tool
    /\ \E a \in InvocationMaps(LocalChoices) :
          /\ inv = [n |-> 1, args |-> a]
          /\ proc = LocalStart(a)
    \* The script file named by script_path may or may not exist.
    /\ fs \in {NoFiles, Extend(NoFiles, "/app/run.py", "print(2)")}
    /\ remote = NoProvider
    /\ trace = <<>>
    /\ CallParked
    /\ ConcParked
    /\ RegParked

\* Lines 47-61: the usage text and exit 1 when neither argument is given.
Local_check_args ==
    /\ proc.pc = "check_args"
    /\ proc' = IF neither_given(proc.script_path, proc.script_content)
               THEN Exited(proc, 1)
               ELSE [proc EXCEPT !.pc = "apt"]
    /\ UNCHANGED <<inv, fs, remote, trace, varsTool, varsCall, varsConc, varsReg>>

\* Lines 65-66: apt-get update and install, each `|| true`.
Local_apt ==
    /\ proc.pc = "apt"
    /\ \E ok \in BOOLEAN : trace' = Append(trace, Did("apt-get", "gcc", ok))
    /\ proc' = [proc EXCEPT !.pc = "pip_upgrade"]
    /\ UNCHANGED <<inv, fs, remote, varsTool, varsCall, varsConc, varsReg>>

\* Line 73: pip install --upgrade pip, with no handler: under set -e a
\* failure ends the payload with pip's status.
Local_pip_upgrade ==
    /\ proc.pc = "pip_upgrade"
    /\ \/ /\ proc' = [proc EXCEPT !.pc = "install"]
          /\ trace' = Append(trace, Did("pip install --upgrade", "pip", TRUE))
       \/ \E st \in FailStatuses :
          /\ proc' = Exited(proc, st)
          /\ trace' = Append(trace, Did("pip install --upgrade", "pip", FALSE))
    /\ UNCHANGED <<inv, fs, remote, varsTool, varsCall, varsConc, varsReg>>

\* Lines 76-102: pip install <package> || { echo ...; exit 1; }
Local_install ==
    /\ proc.pc = "install"
    /\ \E ok \in BOOLEAN :
          /\ trace' = Append(trace, Did("pip install", Packages[proc.i], ok))
          /\ proc' = IF ~ok THEN Exited(proc, 1)
                     ELSE IF proc.i = Len(Packages) THEN [proc EXCEPT !.pc = "dispatch"]
                     ELSE [proc EXCEPT !.i = proc.i + 1]
    /\ UNCHANGED <<inv, fs, remote, varsTool, varsCall, varsConc, varsReg>>

\* Lines 105-154, up to the interpreter: script_content is written to the
\* temporary file; otherwise script_path must name a file; with neither the
\* payload ends with the status of its last command.
Local_dispatch ==
    /\ proc.pc = "dispatch"
    /\ LET source == script_source(proc.script_path, proc.script_content) IN
       IF source = "content"
       THEN /\ fs' = Extend(fs, TEMP_SCRIPT, proc.script_content \o "\n")
            /\ trace' = Append(trace, Did("write", TEMP_SCRIPT, TRUE))
            /\ proc' = [proc EXCEPT !.pc = "python_content"]
       ELSE IF source = "path"
       THEN /\ trace' = Append(trace, Did("test -f", proc.script_path,
                                          proc.script_path \in DOMAIN fs))
            /\ proc' = IF proc.script_path \in DOMAIN fs
                       THEN [proc EXCEPT !.pc = "python_path"]
                       ELSE Exited(proc, 1)
            /\ UNCHANGED fs
       ELSE /\ proc' = Exited(proc, 0)
            /\ UNCHANGED <<fs, trace>>
    /\ UNCHANGED <<inv, remote, varsTool, varsCall, varsConc, varsReg>>

\* Lines 123-130 and 146-153: if python <file>; then ... else exit 1; fi
Local_python ==
    /\ proc.pc \in {"python_content", "python_path"}
    /\ \E st \in PythonStatuses :
          LET file == IF proc.pc = "python_content" THEN TEMP_SCRIPT ELSE proc.script_path IN
          /\ trace' = Append(trace, [op |-> "python", arg |-> file, ok |-> st = 0,
                                     source |-> fs[file]])
          /\ proc' = IF st # 0 THEN Exited(proc, 1)
                     ELSE IF proc.pc = "python_content" THEN [proc EXCEPT !.pc = "cleanup"]
                     ELSE Exited(proc, 0)
    /\ UNCHANGED <<inv, fs, remote, varsTool, varsCall, varsConc, varsReg>>

\* Line 133: rm -f "$TEMP_SCRIPT", the last command of the first branch.
Local_cleanup ==
    /\ proc.pc = "cleanup"
    /\ fs' = Remove(fs, TEMP_SCRIPT)
    /\ trace' = Append(trace, Did("rm", TEMP_SCRIPT, TRUE))
    /\ proc' = Exited(proc, 0)
    /\ UNCHANGED <<inv, remote, varsTool, varsCall, varsConc, varsReg>>

\* The tool is invoked again in the same environment.
Local_invoke ==
    /\ proc.pc = "exited"
    /\ inv.n < MaxInvocations
    /\ \E a \in InvocationMaps(LocalChoices) :
          /\ inv' = [n |-> inv.n + 1, args |-> a]
          /\ proc' = LocalStart(a)
    /\ trace' = <<>>
    /\ UNCHANGED <<fs, remote, varsTool, varsCall, varsConc, varsReg>>

NextLocal ==
    \/ Local_check_args
    \/ Local_apt
    \/ Local_pip_upgrade
    \/ Local_install
    \/ Local_dispatch
    \/ Local_python
    \/ Local_cleanup
    \/ Local_invoke

SpecLocal == InitLocal /\ [][NextLocal]_vars

(***************************************************************************)
(* Properties of the local-execution payload, checked under SpecLocal.     *)
(***************************************************************************)
\* The events of a trace with one of the given operations.
Events(tr, ops) == SelectSeq(tr, LAMBDA e : e.op \in ops)

\* C15: python_script_runner declares script_path and script_content both
\* optional, so validate_args is true for every map, the empty one
\* included; when both are empty the payload exits with status 1 at its
\* first check, having installed nothing and run no script.
C15_BothOptionalPayloadChecks ==
    /\ \A i \in 1..Len(tool.args) : ~tool.args[i].required
    /\ {tool.args[i].name : i \in 1..Len(tool.args)} = {"script_path", "script_content"}
    /\ validate_args(tool, inv.args).ret = RetBool(TRUE)
    /\ (shell_var(inv.args, "script_path") = "" /\ shell_var(inv.args, "script_content") = "") =>
          /\ proc.pc \in {"check_args", "exited"}
          /\ proc.pc = "exited" => proc.code = 1
          /\ trace = <<>>

\* The tool was invoked with the empty map and its payload has exited.
C15_Witness ==
    /\ inv.args = PyDict(<<>>)
    /\ proc.pc = "exited"
    /\ proc.code = 1
    /\ trace = <<>>

\* C19: the interpreter is started only after pandas, openpyxl, lxml and
\* boto3 were installed successfully, in that order; once an install has
\* failed the payload has exited with a non-zero status and no script was
\* run; the payload's exit status is 0 exactly when the interpreter ran the
\* script and returned 0.
C19_InstallThenRun ==
    /\ \A j \in 1..Len(trace) :
          trace[j].op = "python" =>
             Events(SubSeq(trace, 1, j - 1), {"pip install"})
                = <<Did("pip install", "pandas", TRUE), Did("pip install", "openpyxl", TRUE),
                    Did("pip install", "lxml", TRUE), Did("pip install", "boto3", TRUE)>>
    /\ (\E j \in 1..Len(trace) :
           trace[j].op \in {"pip install", "pip install --upgrade"} /\ ~trace[j].ok) =>
          /\ proc.pc = "exited"
          /\ proc.code # 0
          /\ Events(trace, {"python"}) = <<>>
    /\ proc.pc = "exited" =>
          (proc.code = 0 <=> \E j \in 1..Len(trace) : trace[j].op = "python" /\ trace[j].ok)

\* All four packages were installed and the script given by path ran and
\* failed: the payload exited with status 1.
C19_Witness ==
    /\ proc.pc = "exited"
    /\ proc.code = 1
    /\ Len(Events(trace, {"pip install"})) = 4
    /\ \E j \in 1..Len(trace) :
          trace[j].op = "python" /\ ~trace[j].ok /\ trace[j].arg = "/app/run.py"

\* C21: when script_content is non-empty (script_path empty or not) the
\* payload never tests the file at script_path, and the only thing the
\* interpreter is started on is the temporary file holding script_content;
\* the interpreter is started on script_path only when script_content is
\* empty and right after the test found the file; when the test did not
\* find the file the payload has exited with status 1 without starting
\* the interpreter.
C21_ContentBeforePath ==
    /\ proc.script_content # "" =>
          /\ Events(trace, {"test -f"}) = <<>>
          /\ \A j \in 1..Len(trace) :
                trace[j].op = "python" =>
                   /\ trace[j].arg = TEMP_SCRIPT
                   /\ trace[j].source = proc.script_content \o "\n"
    /\ proc.script_content = "" =>
          \A j \in 1..Len(trace) :
             trace[j].op = "python" =>
                /\ proc.script_path # ""
                /\ trace[j].arg = proc.script_path
                /\ j > 1
                /\ trace[j - 1] = Did("test -f", proc.script_path, TRUE)
    /\ (\E j \in 1..Len(trace) : trace[j].op = "test -f" /\ ~trace[j].ok) =>
          /\ proc.pc = "exited"
          /\ proc.code = 1
          /\ Events(trace, {"python"}) = <<>>

\* Both arguments were given, the file at script_path exists with another
\* text, and the interpreter has run the inline content.
C21_Witness ==
    /\ proc.script_content = "print(1)"
    /\ proc.script_path = "/app/run.py"
    /\ "/app/run.py" \in DOMAIN fs
    /\ proc.pc = "exited"
    /\ \E j \in 1..Len(trace) :
          trace[j].op = "python" /\ trace[j].source = "print(1)\n"

\* C22: when the payload has exited after writing script_content to
\* /tmp/temp_script.py, that file is gone, whether the script succeeded or
\* failed.
C22_TempFileRemoved ==
    (proc.pc = "exited" /\ Events(trace, {"write"}) # <<>>) => TEMP_SCRIPT \notin DOMAIN fs

(***************************************************************************)
(* SpecRest: the payloads of create_codesandbox and execute_codesandbox    *)
(* (codesandbox_runner.py), invoked one after another in one execution     *)
(* environment, so that a file one invocation writes is there for the      *)
(* next.                                                                   *)
(***************************************************************************)
\* The name each payload uses when sandbox_name is empty.
default_sandbox_name(tool_name) ==
    IF tool_name = "create_codesandbox" THEN "python-script" ELSE "python-execution"

\* sandbox_name.replace(' ', '_'), on the names in use.
replace_spaces(name) == IF name = "my box" THEN "my_box" ELSE name

\* '/tmp/sandbox_' + sandbox_name.replace(' ', '_') + '.json'
sandbox_file(name) == "/tmp/sandbox_" \o replace_spaces(name) \o ".json"

\* What the provider answers to POST /api/v1/sandboxes: a status code, or
\* no response at all.  An answer with status 200 is a JSON object that
\* holds the new sandbox's identifier under 'id', or holds the empty string
\* under 'id', or holds other keys but no 'id', or is the empty object {}.
PostOutcomes ==
    {"200", "200 empty id", "200 no id", "200 empty object",
     "401", "403", "500", "RequestException"}

\* response.status_code == 200
status_200(o) == o \in {"200", "200 empty id", "200 no id", "200 empty object"}

\* `if result:` on what create_codesandbox() returned: None and the empty
\* object are false.
result_truthy(o) == o \in {"200", "200 empty id", "200 no id"}

\* The identifiers the provider gives its sandboxes, in order.  What an
\* answer holds under 'id' is part of the outcome (answer_id).
ProviderIds ==
    <<"sb1", "sb2", "sb3", "sb4", "sb5", "sb6", "sb7", "sb8", "sb9", "sb10", "sb11", "sb12">>
NewId(prov) == ProviderIds[Len(prov.sandboxes) + 1]

\* Python's None in the place of an identifier: what .get('id') gives on an
\* object without 'id'.  It is not a string, the empty one included.
PyNoneId == "<None>"

\* `not sandbox_id` (lines 295, 309): true of None and of the empty string.
not_sandbox_id(sandbox_id) == sandbox_id \in {PyNoneId, ""}

\* sandbox_data.get('id') on the answer: the identifier, the empty string,
\* or None.
answer_id(prov, o) ==
    IF o = "200" THEN NewId(prov)
    ELSE IF o = "200 empty id" THEN ""
    ELSE PyNoneId

\* The calls of create_new_sandbox followed within one invocation.  The
\* code itself sets no limit: the two functions go on calling each other as
\* long as the provider answers 200 with an empty 'id', until the
\* interpreter's recursion limit (1000 frames, several hundred calls)
\* raises RecursionError inside a later call, which lies beyond this bound.
MaxCreateCalls == 3

RestChoices(tool_name) ==
    IF tool_name = "create_codesandbox"
    THEN [script_content |-> {Str("print(1)")},
          sandbox_name |-> {Str("my box"), Str("my_box")},
          template_type |-> {Str("python")}]
    ELSE [script_content |-> {Str("print(1)")},
          sandbox_id |-> {Str("sb0")},
          sandbox_name |-> {Str("my box"), Str("my_box")}]

\* Values of the CODE_SANDBOX_API secret in the environment.
ApiKeys == {"", "key"}

\* The shell at the first command of either payload.
RestStart(args, key) ==
    [pc |-> "check_args",
     script_content |-> shell_var(args, "script_content"),
     sandbox_id |-> shell_var(args, "sandbox_id"),
     sandbox_name |-> shell_var(args, "sandbox_name"),
     template_type |-> shell_var(args, "template_type"),
     api_key |-> key,
     \* execute_codesandbox: the calls made of each function, and what the
     \* provider answered to the POST.
     calls |-> [execute_in_codesandbox |-> 0, create_new_sandbox |-> 0],
     response |-> "",
     code |-> 0]

NoPrevious == [tool |-> "", args |-> PyDict(<<>>), code |-> 0, id |-> ""]

InitRest ==
    /\ \E t \in {CodeSandboxTools_tools[j] : j \in 1..Len(CodeSandboxTools_tools)} :
         \E a \in InvocationMaps(RestChoices(t.name)), key \in ApiKeys :
          /\ tool = t
          /\ inv = [n |-> 1, args |-> a, prev |-> NoPrevious]
          /\ proc = RestStart(a, key)
    /\ constructed = tool
    /\ fs = NoFiles
    /\ remote = NoProvider
    /\ trace = <<>>
    /\ CallParked
    /\ ConcParked
    /\ RegParked

\* create_codesandbox lines 53-90, execute_codesandbox lines 252-272: the
\* checks of script_content (and, in create, of the API key), then the
\* defaults.
Rest_check_args ==
    /\ proc.pc = "check_args"
    /\ proc' = IF proc.script_content = "" THEN Exited(proc, 1)
               ELSE IF tool.name = "create_codesandbox" /\ proc.api_key = ""
               THEN Exited(proc, 1)
               ELSE [proc EXCEPT
                       !.pc = "pip",
                       !.sandbox_name = IF @ = "" THEN default_sandbox_name(tool.name) ELSE @,
                       !.template_type = IF tool.name = "create_codesandbox" /\ @ = ""
                                         THEN "python" ELSE @]
    /\ UNCHANGED <<inv, fs, remote, trace, varsTool, varsCall, varsConc, varsReg>>

\* pip install requests || { echo ...; exit 1; }
Rest_pip ==
    /\ proc.pc = "pip"
    /\ \E ok \in BOOLEAN :
          /\ trace' = Append(trace, Did("pip install", "requests", ok))
          /\ proc' = IF ok THEN [proc EXCEPT !.pc = "python"] ELSE Exited(proc, 1)
    /\ UNCHANGED <<inv, fs, remote, varsTool, varsCall, varsConc, varsReg>>

\* create_codesandbox lines 120-224: the POST; anything but status 200
\* makes create_codesandbox() return None; on status 200 it returns the
\* answer's object.  When `if result:` (line 202) is false the script
\* exits 1 (line 224).
Rest_create_post ==
    /\ proc.pc = "python"
    /\ tool.name = "create_codesandbox"
    /\ \E o \in PostOutcomes :
          /\ trace' = Append(trace, Did("POST", "sandboxes", status_200(o)))
          /\ IF status_200(o)
             THEN /\ remote' = [remote EXCEPT !.sandboxes =
                                   Append(@, [id |-> NewId(remote), main |-> proc.script_content])]
                  /\ proc' = IF result_truthy(o)
                             THEN [proc EXCEPT !.pc = "save", !.response = o,
                                               !.sandbox_id = answer_id(remote, o)]
                             ELSE Exited([proc EXCEPT !.response = o], 1)
             ELSE /\ proc' = Exited([proc EXCEPT !.response = o], 1)
                  /\ UNCHANGED remote
    /\ UNCHANGED <<inv, fs, varsTool, varsCall, varsConc, varsReg>>

\* create_codesandbox lines 202-220: the result is written to the file
\* named after the sandbox.
Rest_create_save ==
    /\ proc.pc = "save"
    /\ fs' = Extend(fs, sandbox_file(proc.sandbox_name), proc.sandbox_id)
    /\ trace' = Append(trace, Did("write", sandbox_file(proc.sandbox_name), TRUE))
    /\ proc' = Exited(proc, 0)
    /\ UNCHANGED <<inv, remote, varsTool, varsCall, varsConc, varsReg>>

\* execute_in_codesandbox lines 295-315: what the function does with the
\* sandbox_id it was called with, the saved file of the name (found or not,
\* and the 'id' it holds, if any) and the key.  A file that gives no
\* identifier leaves sandbox_id unset, and the second `if not sandbox_id`
\* (line 309) goes on as if there were no file.
resolve_sandbox(sandbox_id, file_found, saved_id, api_key) ==
    IF ~not_sandbox_id(sandbox_id) THEN "execute"
    ELSE IF file_found /\ ~not_sandbox_id(saved_id) THEN "read"
    ELSE IF api_key = "" THEN "fail"
    ELSE "create"

\* execute_in_codesandbox is entered (from the script's last lines, where
\* an empty $sandbox_id becomes None, line 423, or from create_new_sandbox):
\* a given sandbox_id is used; else the saved file of the name is read;
\* else, with an API key, create_new_sandbox is called; else the function
\* returns False and the script exits 1.
Rest_exec_resolve ==
    /\ proc.pc = "python"
    /\ tool.name = "execute_codesandbox"
    /\ LET file == sandbox_file(proc.sandbox_name)
           found == file \in DOMAIN fs
           saved_id == IF found THEN fs[file] ELSE PyNoneId
           todo == resolve_sandbox(proc.sandbox_id, found, saved_id, proc.api_key)
           entered == [proc EXCEPT !.calls.execute_in_codesandbox = @ + 1] IN
       \* The file is opened whenever no sandbox_id was given and it exists.
       /\ trace' = IF not_sandbox_id(proc.sandbox_id) /\ found
                   THEN Append(trace, Did("read", file, ~not_sandbox_id(saved_id)))
                   ELSE trace
       /\ proc' = IF todo = "execute" THEN [entered EXCEPT !.pc = "execute"]
                  ELSE IF todo = "read"
                  THEN [entered EXCEPT !.pc = "execute", !.sandbox_id = saved_id]
                  ELSE IF todo = "fail" THEN Exited(entered, 1)
                  ELSE [entered EXCEPT !.pc = "create_new_sandbox"]
    /\ UNCHANGED <<inv, fs, remote, varsTool, varsCall, varsConc, varsReg>>

\* create_new_sandbox lines 347-418: the POST; on status 200 the result is
\* saved under the name and execute_in_codesandbox is called with what the
\* answer holds under 'id', the empty string included; otherwise False is
\* returned and the script exits 1.
Rest_exec_create ==
    /\ proc.pc = "create_new_sandbox"
    /\ proc.calls.create_new_sandbox < MaxCreateCalls
    /\ \E o \in PostOutcomes :
          LET entered == [proc EXCEPT !.calls.create_new_sandbox = @ + 1, !.response = o] IN
          IF status_200(o)
          THEN /\ remote' = [remote EXCEPT !.sandboxes =
                                Append(@, [id |-> NewId(remote), main |-> proc.script_content])]
               /\ fs' = Extend(fs, sandbox_file(proc.sandbox_name), answer_id(remote, o))
               /\ trace' = trace \o <<Did("POST", "sandboxes", TRUE),
                                      Did("write", sandbox_file(proc.sandbox_name), TRUE)>>
               \* Line 396 joins a string and the identifier: on None it
               \* raises TypeError, which line 416 catches: False is returned.
               /\ proc' = IF answer_id(remote, o) = PyNoneId
                          THEN Exited(entered, 1)
                          ELSE [entered EXCEPT !.pc = "python",
                                               !.sandbox_id = answer_id(remote, o)]
          ELSE /\ trace' = Append(trace, Did("POST", "sandboxes", FALSE))
               /\ proc' = Exited(entered, 1)
               /\ UNCHANGED <<fs, remote>>
    /\ UNCHANGED <<inv, varsTool, varsCall, varsConc, varsReg>>

\* execute_in_codesandbox lines 317-345: the sandbox's URL, the script text
\* and instructions for running it in the browser are printed, and True is
\* returned; no request is made to the provider.
Rest_exec_instructions ==
    /\ proc.pc = "execute"
    /\ trace' = Append(trace, Did("print instructions", proc.sandbox_id, TRUE))
    /\ proc' = Exited(proc, 0)
    /\ UNCHANGED <<inv, fs, remote, varsTool, varsCall, varsConc, varsReg>>

\* Another tool of the set is invoked in the same environment.
Rest_invoke ==
    /\ proc.pc = "exited"
    /\ inv.n < MaxInvocations
    /\ \E t \in {CodeSandboxTools_tools[j] : j \in 1..Len(CodeSandboxTools_tools)} :
         \E a \in InvocationMaps(RestChoices(t.name)), key \in ApiKeys :
          /\ tool' = t
          /\ constructed' = t
          /\ inv' = [n |-> inv.n + 1, args |-> a,
                     prev |-> [tool |-> tool.name, args |-> inv.args, code |-> proc.code,
                               id |-> proc.sandbox_id]]
          /\ proc' = RestStart(a, key)
    /\ trace' = <<>>
    /\ UNCHANGED <<fs, remote, varsCall, varsConc, varsReg>>

NextRest ==
    \/ Rest_check_args
    \/ Rest_pip
    \/ Rest_create_post
    \/ Rest_create_save
    \/ Rest_exec_resolve
    \/ Rest_exec_create
    \/ Rest_exec_instructions
    \/ Rest_invoke

SpecRest == InitRest /\ [][NextRest]_vars

(***************************************************************************)
(* Properties of the REST payloads, checked under SpecRest.                *)
(***************************************************************************)
Happened(tr, op) == \E j \in 1..Len(tr) : tr[j].op = op

\* The payload got as far as using a sandbox, or ended successfully.
Resolved == proc.pc = "execute" \/ (proc.pc = "exited" /\ proc.code = 0)

\* C16: create_codesandbox writes the sandbox file only after the provider
\* answered with success, under the sandbox's name, and writes nothing when
\* the creation failed; and whatever sandbox_name is given, the omitted one
\* included, execute_codesandbox invoked right after a successful
\* create_codesandbox with the same sandbox_name and no sandbox_id uses the
\* identifier that creation saved and creates no sandbox.
C16_RoundTrip ==
    /\ tool.name = "create_codesandbox" =>
          /\ \A j \in 1..Len(trace) :
                trace[j].op = "write" =>
                   /\ j > 1 /\ trace[j - 1] = Did("POST", "sandboxes", TRUE)
                   /\ trace[j].arg = sandbox_file(proc.sandbox_name)
          /\ (proc.pc = "exited" /\ proc.code # 0) => ~Happened(trace, "write")
    /\ (/\ tool.name = "execute_codesandbox"
        /\ inv.prev.tool = "create_codesandbox"
        /\ inv.prev.code = 0
        /\ shell_var(inv.args, "sandbox_name") = shell_var(inv.prev.args, "sandbox_name")
        /\ shell_var(inv.args, "sandbox_id") = "") =>
          /\ proc.pc # "create_new_sandbox"
          /\ ~Happened(trace, "POST")
          /\ Resolved => proc.sandbox_id = inv.prev.id

\* C17: execute_codesandbox uses a supplied sandbox_id as it is and reads no
\* saved file; without one it reuses the identifier saved under the name;
\* without either it creates a sandbox, which needs a non-empty API key;
\* and whenever it ends successfully it has asked the provider to run the
\* fixed command and has shown the captured output.
C17_ResolveThenExecute ==
    tool.name = "execute_codesandbox" =>
       LET supplied_id == shell_var(inv.args, "sandbox_id") IN
       /\ supplied_id # "" =>
             /\ ~Happened(trace, "read") /\ ~Happened(trace, "POST")
             /\ Resolved => proc.sandbox_id = supplied_id
       /\ Happened(trace, "read") =>
             /\ supplied_id = "" /\ ~Happened(trace, "POST")
             /\ Resolved => proc.sandbox_id = fs[sandbox_file(proc.sandbox_name)]
       /\ Happened(trace, "POST") =>
             /\ supplied_id = "" /\ proc.api_key # "" /\ ~Happened(trace, "read")
       /\ (proc.pc = "exited" /\ proc.code = 0) =>
             /\ \E j \in 1..Len(trace) :
                   trace[j].op = "commands.run" /\ trace[j].arg = "python main.py"
             /\ Happened(trace, "output")

(***************************************************************************)
(* SpecSdk: the payloads of create_codesandbox_sdk and                     *)
(* execute_codesandbox_sdk: the shell prelude CodeSandboxTool puts in      *)
(* front (codesandbox_base.py), then the Node.js script of the descriptor  *)
(* (codesandbox_sdk_runner.py).  A call to the provider's SDK returns or   *)
(* throws.                                                                 *)
(***************************************************************************)
PROJECT_DIR == "/tmp/codesandbox_project"

\* execute_sandbox.js, the try/catch around readTextFile('main.py'): a file
\* that was read is kept; after a failed read main.py is created from
\* SCRIPT_CONTENT when that is non-empty, and an Error is thrown otherwise.
main_py_action(read_ok, script_content) ==
    IF read_ok THEN "keep"
    ELSE IF script_content # "" THEN "write" ELSE "throw"

\* (process.env.SANDBOX_NAME || 'python-script').replace(/[^a-zA-Z0-9]/g, '_'),
\* on the names in use.
sanitized_name(name) ==
    IF name = "" THEN "python_script"
    ELSE IF name = "my box" THEN "my_box" ELSE name

\* process.env.SCRIPT_CONTENT || 'print("Hello, CodeSandbox!")'
script_or_default(script_content) ==
    IF script_content # "" THEN script_content ELSE "print(\"Hello, CodeSandbox!\")"

SdkChoices(tool_name) ==
    IF tool_name = "create_codesandbox_sdk"
    THEN [script_content |-> {Str(""), Str("print(1)")},
          sandbox_name |-> {Str("my box")}]
    ELSE [sandbox_id |-> {Str(""), Str("sb0"), Str("sb2"), Str("sb9")},
          script_content |-> {Str("print(1)")}]

\* Values of the CSB_API_KEY secret in the environment.
CsbApiKeys == {"", "key"}

\* How a resumed sandbox says it booted.
BootupTypes == {"CLEAN", "RESUME"}

\* The shell at the first command of the prelude.
SdkStart(args, key) ==
    [pc |-> "mkdir",
     script_content |-> shell_var(args, "script_content"),
     sandbox_id |-> shell_var(args, "sandbox_id"),
     sandbox_name |-> shell_var(args, "sandbox_name"),
     CSB_API_KEY |-> key,
     sandbox |-> "", bootupType |-> "", code |-> 0]

\* The provider's sandbox with the given identifier, if any.
SandboxIndex(prov, id) == {j \in 1..Len(prov.sandboxes) : prov.sandboxes[j].id = id}

InitSdk ==
    /\ \E t \in {CodeSandboxSDKTools_tools[j] : j \in 1..Len(CodeSandboxSDKTools_tools)} :
         \E a \in InvocationMaps(SdkChoices(t.name)), key \in CsbApiKeys :
          /\ tool = t
          /\ inv = [n |-> 1, args |-> a]
          /\ proc = SdkStart(a, key)
    /\ constructed = tool
    /\ fs = NoFiles
    \* The provider already holds sandbox sb0, with or without a main.py.
    /\ \E has \in BOOLEAN :
          remote = [sandboxes |-> <<[id |-> "sb0", has_main |-> has,
                                     main |-> IF has THEN "print(0)" ELSE ""]>>]
    /\ trace = <<>>
    /\ CallParked
    /\ ConcParked
    /\ RegParked

\* codesandbox_base.py lines 51-53: mkdir -p and cd.
Sdk_mkdir ==
    /\ proc.pc = "mkdir"
    /\ trace' = Append(trace, Did("mkdir", PROJECT_DIR, TRUE))
    /\ proc' = [proc EXCEPT !.pc = "npm_init"]
    /\ UNCHANGED <<inv, fs, remote, varsTool, varsCall, varsConc, varsReg>>

\* Lines 55-59: npm init -y when there is no package.json; it has no
\* handler, so under set -e a failure ends the payload.
Sdk_npm_init ==
    /\ proc.pc = "npm_init"
    /\ IF PROJECT_DIR \o "/package.json" \in DOMAIN fs
       THEN /\ proc' = [proc EXCEPT !.pc = "npm_install"]
            /\ UNCHANGED <<fs, trace>>
       ELSE \/ /\ fs' = Extend(fs, PROJECT_DIR \o "/package.json", "{}")
               /\ trace' = Append(trace, Did("npm init", "package.json", TRUE))
               /\ proc' = [proc EXCEPT !.pc = "npm_install"]
            \/ \E st \in FailStatuses :
               /\ trace' = Append(trace, Did("npm init", "package.json", FALSE))
               /\ proc' = Exited(proc, st)
               /\ UNCHANGED fs
    /\ UNCHANGED <<inv, remote, varsTool, varsCall, varsConc, varsReg>>

\* Lines 61-67: npm install @codesandbox/sdk || { echo ...; exit 1; }
Sdk_npm_install ==
    /\ proc.pc = "npm_install"
    /\ \E ok \in BOOLEAN :
          /\ trace' = Append(trace, Did("npm install", "@codesandbox/sdk", ok))
          /\ proc' = IF ok THEN [proc EXCEPT !.pc = "check_key"] ELSE Exited(proc, 1)
    /\ UNCHANGED <<inv, fs, remote, varsTool, varsCall, varsConc, varsReg>>

\* Variant of key_missing: the prelude does not look at the key.
key_missing_unchecked(key) == FALSE

\* [ -z "$CSB_API_KEY" ]
key_missing(key) == key = ""

\* Lines 69-81: exit 1 when CSB_API_KEY is empty.
Sdk_check_key ==
    /\ proc.pc = "check_key"
    /\ proc' = IF key_missing(proc.CSB_API_KEY) THEN Exited(proc, 1)
               ELSE [proc EXCEPT !.pc = "write_js"]
    /\ UNCHANGED <<inv, fs, remote, trace, varsTool, varsCall, varsConc, varsReg>>

\* The descriptor's own content starts: cat > <script>.js << 'EOF', the
\* exports, cd, node <script>.js.
Sdk_write_js ==
    /\ proc.pc = "write_js"
    /\ LET js == PROJECT_DIR \o (IF tool.name = "create_codesandbox_sdk"
                                 THEN "/create_sandbox.js" ELSE "/execute_sandbox.js") IN
       /\ fs' = Extend(fs, js, tool.name)
       /\ trace' = Append(trace, Did("write", js, TRUE))
    /\ proc' = [proc EXCEPT !.pc = "node"]
    /\ UNCHANGED <<inv, remote, varsTool, varsCall, varsConc, varsReg>>

\* create_sandbox.js lines 56-70: sdk.sandboxes.create(...).
Sdk_create ==
    /\ proc.pc = "node"
    /\ tool.name = "create_codesandbox_sdk"
    /\ \E ok \in BOOLEAN :
          /\ trace' = Append(trace, Did("sandboxes.create", proc.sandbox_name, ok))
          /\ IF ok
             THEN /\ remote' = [remote EXCEPT !.sandboxes =
                                   Append(@, [id |-> NewId(remote), has_main |-> FALSE, main |-> ""])]
                  /\ proc' = [proc EXCEPT !.pc = "connect", !.sandbox = NewId(remote)]
             ELSE /\ proc' = Exited(proc, 1)
                  /\ UNCHANGED remote
    /\ UNCHANGED <<inv, fs, varsTool, varsCall, varsConc, varsReg>>

\* execute_sandbox.js lines 212-221: an Error when SANDBOX_ID is empty, else
\* sdk.sandboxes.resume(sandboxId), which throws for an unknown sandbox.
Sdk_resume ==
    /\ proc.pc = "node"
    /\ tool.name = "execute_codesandbox_sdk"
    /\ IF proc.sandbox_id = ""
       THEN /\ proc' = Exited(proc, 1)
            /\ UNCHANGED trace
       ELSE \E ok \in (IF SandboxIndex(remote, proc.sandbox_id) # {} THEN BOOLEAN ELSE {FALSE}),
               boot \in BootupTypes :
               /\ trace' = Append(trace, Did("sandboxes.resume", proc.sandbox_id, ok))
               /\ proc' = IF ok THEN [proc EXCEPT !.pc = "connect", !.sandbox = proc.sandbox_id,
                                                  !.bootupType = boot]
                          ELSE Exited(proc, 1)
    /\ UNCHANGED <<inv, fs, remote, varsTool, varsCall, varsConc, varsReg>>

\* sandbox.connect({...}) in either script.
Sdk_connect ==
    /\ proc.pc = "connect"
    /\ \E ok \in BOOLEAN :
          /\ trace' = Append(trace, Did("sandbox.connect", proc.sandbox, ok))
          /\ proc' = IF ~ok THEN Exited(proc, 1)
                     ELSE IF tool.name = "create_codesandbox_sdk"
                     THEN [proc EXCEPT !.pc = "save_script"]
                     ELSE [proc EXCEPT !.pc = "read_main"]
    /\ UNCHANGED <<inv, fs, remote, varsTool, varsCall, varsConc, varsReg>>

\* The provider's state after writeTextFile('main.py', text) in sandbox id.
WithMain(prov, id, text) ==
    [prov EXCEPT !.sandboxes =
        [j \in 1..Len(@) |-> IF @[j].id = id
                             THEN [@[j] EXCEPT !.has_main = TRUE, !.main = text]
                             ELSE @[j]]]

\* create_sandbox.js lines 94-102: writeTextFile('main.py', SCRIPT_CONTENT
\* or the default script); a failure is thrown on.
Sdk_save_script ==
    /\ proc.pc = "save_script"
    /\ \E ok \in BOOLEAN :
          /\ trace' = Append(trace, Did("writeTextFile", "main.py", ok))
          /\ IF ok
             THEN /\ remote' = WithMain(remote, proc.sandbox, script_or_default(proc.script_content))
                  /\ proc' = [proc EXCEPT !.pc = "save_info"]
             ELSE /\ proc' = Exited(proc, 1)
                  /\ UNCHANGED remote
    /\ UNCHANGED <<inv, fs, varsTool, varsCall, varsConc, varsReg>>

\* create_sandbox.js lines 117-146: the sandbox's info is written to the
\* file named after the sandbox and the script exits 0.
Sdk_save_info ==
    /\ proc.pc = "save_info"
    /\ LET file == "/tmp/sandbox_" \o sanitized_name(proc.sandbox_name) \o ".json" IN
       /\ fs' = Extend(fs, file, proc.sandbox)
       /\ trace' = Append(trace, Did("write", file, TRUE))
    /\ proc' = Exited(proc, 0)
    /\ UNCHANGED <<inv, remote, varsTool, varsCall, varsConc, varsReg>>

\* execute_sandbox.js lines 257-279: readTextFile('main.py') and what
\* follows from its result.  An existing file may still fail to be read.
Sdk_read_main ==
    /\ proc.pc = "read_main"
    /\ LET sb == remote.sandboxes[CHOOSE j \in SandboxIndex(remote, proc.sandbox) : TRUE] IN
       \E read_ok \in (IF sb.has_main THEN BOOLEAN ELSE {FALSE}) :
          LET act == main_py_action(read_ok, proc.script_content) IN
          /\ trace' = Append(trace, [op |-> "readTextFile", arg |-> "main.py", ok |-> read_ok,
                                     existed |-> sb.has_main])
          /\ proc' = IF act = "keep" THEN [proc EXCEPT !.pc = "deps"]
                     ELSE IF act = "write" THEN [proc EXCEPT !.pc = "write_main"]
                     ELSE Exited(proc, 1)
    /\ UNCHANGED <<inv, fs, remote, varsTool, varsCall, varsConc, varsReg>>

\* execute_sandbox.js line 272: writeTextFile('main.py', SCRIPT_CONTENT).
Sdk_write_main ==
    /\ proc.pc = "write_main"
    /\ \E ok \in BOOLEAN :
          /\ trace' = Append(trace, Did("writeTextFile", "main.py", ok))
          /\ IF ok
             THEN /\ remote' = WithMain(remote, proc.sandbox, proc.script_content)
                  /\ proc' = [proc EXCEPT !.pc = "deps"]
             ELSE /\ proc' = Exited(proc, 1)
                  /\ UNCHANGED remote
    /\ UNCHANGED <<inv, fs, varsTool, varsCall, varsConc, varsReg>>

\* execute_sandbox.js lines 285-304: after a clean boot the requirements
\* are installed; a failure is reported and execution continues.
Sdk_deps ==
    /\ proc.pc = "deps"
    /\ IF proc.bootupType = "CLEAN"
       THEN \E ok \in BOOLEAN :
               trace' = Append(trace, Did("commands.run", "pip install -r requirements.txt", ok))
       ELSE UNCHANGED trace
    /\ proc' = [proc EXCEPT !.pc = "run"]
    /\ UNCHANGED <<inv, fs, remote, varsTool, varsCall, varsConc, varsReg>>

\* execute_sandbox.js lines 306-352: commands.run('python main.py'); its
\* output is printed, the execution info saved, and the script exits 0; a
\* throw ends it with status 1.
Sdk_run ==
    /\ proc.pc = "run"
    /\ \/ /\ trace' = trace \o <<Did("commands.run", "python main.py", TRUE),
                                 Did("output", proc.sandbox, TRUE)>>
          /\ fs' = Extend(fs, "/tmp/execution_" \o ProviderIds[inv.n] \o ".json", proc.sandbox)
          /\ proc' = Exited(proc, 0)
       \/ /\ trace' = Append(trace, Did("commands.run", "python main.py", FALSE))
          /\ proc' = Exited(proc, 1)
          /\ UNCHANGED fs
    /\ UNCHANGED <<inv, remote, varsTool, varsCall, varsConc, varsReg>>

\* Another tool of the set is invoked in the same environment.
Sdk_invoke ==
    /\ proc.pc = "exited"
    /\ inv.n < MaxInvocations
    /\ \E t \in {CodeSandboxSDKTools_tools[j] : j \in 1..Len(CodeSandboxSDKTools_tools)} :
         \E a \in InvocationMaps(SdkChoices(t.name)), key \in CsbApiKeys :
          /\ tool' = t
          /\ constructed' = t
          /\ inv' = [n |-> inv.n + 1, args |-> a]
          /\ proc' = SdkStart(a, key)
    /\ trace' = <<>>
    /\ UNCHANGED <<fs, remote, varsCall, varsConc, varsReg>>

NextSdk ==
    \/ Sdk_mkdir
    \/ Sdk_npm_init
    \/ Sdk_npm_install
    \/ Sdk_check_key
    \/ Sdk_write_js
    \/ Sdk_create
    \/ Sdk_resume
    \/ Sdk_connect
    \/ Sdk_save_script
    \/ Sdk_save_info
    \/ Sdk_read_main
    \/ Sdk_write_main
    \/ Sdk_deps
    \/ Sdk_run
    \/ Sdk_invoke

SpecSdk == InitSdk /\ [][NextSdk]_vars

(***************************************************************************)
(* Properties of the SDK payloads, checked under SpecSdk.                  *)
(***************************************************************************)
\* The names a descriptor declares as required / as optional.
RequiredOf(t) == {t.args[i].name : i \in {j \in 1..Len(t.args) : t.args[j].required}}
OptionalOf(t) == {t.args[i].name : i \in {j \in 1..Len(t.args) : ~t.args[j].required}}

\* C12: when validate_args is false on the map of an invocation, no step
\* of the payload is executed (no package install, no file written, no call
\* to the provider) and the invocation ends by surfacing the message that
\* lists the missing required names in declared order.
C12_ShortCircuit ==
    validate_args(tool, inv.args).ret = RetBool(FALSE) =>
       /\ SelectSeq(trace, LAMBDA e : e.op # "error message") = <<>>
       /\ proc.pc \in {"mkdir", "exited"}
       /\ proc.pc = "exited" =>
             \E j \in 1..Len(trace) :
                trace[j] = Did("error message", get_error_message(tool, inv.args).ret.s, TRUE)

\* The write of main.py by the execute payload happens only right after a
\* failed read of main.py and with a non-empty script_content; after a
\* successful read nothing is written to the sandbox's main.py; after a
\* failed read with an empty script_content the payload has
\* exited with status 1 and no command was run in the sandbox.
FallbackOnly ==
    tool.name = "execute_codesandbox_sdk" =>
       /\ \A j \in 1..Len(trace) :
             trace[j].op = "writeTextFile" =>
                /\ j > 1 /\ trace[j - 1].op = "readTextFile" /\ ~trace[j - 1].ok
                /\ proc.script_content # ""
                /\ trace[j].ok =>
                      \A k \in SandboxIndex(remote, proc.sandbox) :
                         remote.sandboxes[k].main = proc.script_content
       /\ (\E j \in 1..Len(trace) : trace[j].op = "readTextFile" /\ trace[j].ok) =>
             /\ ~Happened(trace, "writeTextFile")
             /\ \A k \in SandboxIndex(remote, proc.sandbox) :
                   remote.sandboxes[k].has_main
       /\ ((\E j \in 1..Len(trace) : trace[j].op = "readTextFile" /\ ~trace[j].ok)
              /\ proc.script_content = "") =>
             /\ proc.pc = "exited" /\ proc.code = 1
             /\ ~Happened(trace, "commands.run")

\* C18: the remote-execute descriptor that has a name argument,
\* execute_codesandbox, declares script_content as its one required
\* argument and sandbox_id and sandbox_name as optional; and in the SDK
\* payload script_content is only a fallback: it is written to main.py only
\* when main.py cannot be read and script_content is non-empty, a main.py
\* that exists in the sandbox is never overwritten, and with main.py
\* missing and script_content empty the payload fails without running a
\* command.
C18_ScriptContentRequiredFallback ==
    /\ RequiredOf(CodeSandboxTools_execute_codesandbox) = {"script_content"}
    /\ OptionalOf(CodeSandboxTools_execute_codesandbox) = {"sandbox_id", "sandbox_name"}
    /\ FallbackOnly
    /\ tool.name = "execute_codesandbox_sdk" =>
          \A j \in 1..Len(trace) :
             trace[j].op = "writeTextFile" => j > 1 /\ ~trace[j - 1].existed

\* The commands of the prelude CodeSandboxTool puts before every content.
PreludeOps == {"mkdir", "npm init", "npm install"}

\* The SDK install of this invocation succeeded before event j.
SdkInstalledBefore(j) ==
    \E i \in 1..(j - 1) : trace[i] = Did("npm install", "@codesandbox/sdk", TRUE)

\* C23: for both descriptors CodeSandboxTool builds, every step of the
\* descriptor's own content (writing and running its script, creating or
\* resuming a sandbox, connecting, reading or writing its files, running a
\* command) comes after a successful SDK install and with a non-empty
\* CSB_API_KEY; once the install has failed, or the payload has exited with
\* an empty key, the payload has exited with a non-zero status and no step
\* of its content was taken; and the provider's sandboxes change only in an
\* invocation whose install succeeded and whose key is non-empty.
C23_PreludeGuardsContent ==
    /\ [](/\ \A j \in 1..Len(trace) :
               trace[j].op \notin PreludeOps =>
                  /\ SdkInstalledBefore(j)
                  /\ proc.CSB_API_KEY # ""
          /\ proc.pc \notin {"mkdir", "npm_init", "npm_install", "check_key", "exited"} =>
                  /\ SdkInstalledBefore(Len(trace) + 1)
                  /\ proc.CSB_API_KEY # ""
          /\ ((\E j \in 1..Len(trace) : trace[j].op = "npm install" /\ ~trace[j].ok)
                 \/ (proc.pc = "exited" /\ proc.CSB_API_KEY = "")) =>
                  /\ proc.pc = "exited"
                  /\ proc.code # 0
                  /\ \A j \in 1..Len(trace) : trace[j].op \in PreludeOps)
    /\ [][remote' # remote =>
             /\ SdkInstalledBefore(Len(trace) + 1)
             /\ proc.CSB_API_KEY # ""]_vars

\* The install succeeded but the key is empty: the payload has exited with
\* status 1 after the prelude alone, the provider as it was at the start.
C23_Witness ==
    /\ proc.pc = "exited"
    /\ proc.code = 1
    /\ proc.CSB_API_KEY = ""
    /\ trace # <<>>
    /\ trace[Len(trace)] = Did("npm install", "@codesandbox/sdk", TRUE)
    /\ Len(remote.sandboxes) = 1

(***************************************************************************)
(* SpecRestFair: SpecRest with the shell and the interpreter going on to   *)
(* the next command of a payload that has not exited.  The POST is made    *)
(* with timeout=30, so it ends with an answer or a request error.  When    *)
(* the next invocation comes, if ever, is left open.                       *)
(***************************************************************************)
Rest_step ==
    \/ Rest_check_args
    \/ Rest_pip
    \/ Rest_create_post
    \/ Rest_create_save
    \/ Rest_exec_resolve
    \/ Rest_exec_create
    \/ Rest_exec_instructions

SpecRestFair == SpecRest /\ WF_vars(Rest_step)

\* The invocation has made as many calls of create_new_sandbox as are
\* followed, and is about to make another.
CreateCallsFollowed ==
    proc.pc = "create_new_sandbox" /\ proc.calls.create_new_sandbox = MaxCreateCalls

\* C24: every invocation of execute_codesandbox exits; in it
\* create_new_sandbox is called at most once and execute_in_codesandbox at
\* most twice, the second time from create_new_sandbox; at most one POST is
\* made, and the provider gets a new sandbox only in an invocation that
\* was given no sandbox_id, found no identifier saved for its name and had
\* not created one yet, and then exactly one; and after any answer of the
\* provider (200, 401, 403, another status, a request error) the payload
\* exits with status 0 when the answer was 200 with the new identifier and
\* with status 1 otherwise.  (An invocation counts as followed to its end
\* when it exits or reaches MaxCreateCalls, which no invocation making one
\* call at most does.)
C24_TerminatesOneSandbox ==
    /\ [](tool.name = "execute_codesandbox" =>
            /\ proc.calls.create_new_sandbox <= 1
            /\ proc.calls.execute_in_codesandbox <= 2
            /\ proc.calls.execute_in_codesandbox = 2 => proc.calls.create_new_sandbox = 1
            /\ Len(Events(trace, {"POST"})) = proc.calls.create_new_sandbox
            /\ proc.pc = "exited" =>
                  /\ proc.code \in {0, 1}
                  /\ proc.response # "" =>
                        proc.code = (IF proc.response = "200" THEN 0 ELSE 1))
    /\ [][(tool.name = "execute_codesandbox" /\ remote' # remote) =>
             /\ Len(remote'.sandboxes) = Len(remote.sandboxes) + 1
             /\ shell_var(inv.args, "sandbox_id") = ""
             /\ \/ sandbox_file(proc.sandbox_name) \notin DOMAIN fs
                \/ not_sandbox_id(fs[sandbox_file(proc.sandbox_name)])
             /\ proc.calls.create_new_sandbox = 0]_vars
    /\ \A n \in 1..MaxInvocations :
          (inv.n = n /\ tool.name = "execute_codesandbox")
             ~> (inv.n = n /\ (proc.pc = "exited" \/ CreateCallsFollowed))

====
